---- MODULE Spec2Model ----
(***************************************************************************)
(* State-machine model of app1.py: the Streamlit front-end that loads six  *)
(* joblib artifacts once, validates them, collects eleven property         *)
(* features and dispatches three predictions (market segment, price level, *)
(* unit price).                                                            *)
(*                                                                         *)
(* The source writes its feature names, labels and messages in Chinese;    *)
(* the model spells each one in ASCII.  Every string the code compares     *)
(* against keeps a one-to-one ASCII counterpart, so the comparisons of the *)
(* code are the comparisons of the model.  A Python str that is built from *)
(* parts (an f-string) is a sequence of tokens, and "pattern in text" is   *)
(* membership of the pattern token in that sequence.  A prediction that    *)
(* the code hands to int(), str() or float() is given by its code points,  *)
(* and a float by its exact decimal expansion.                             *)
(***************************************************************************)
EXTENDS Integers, Sequences, FiniteSets, TLC

VARIABLES
    files_present,          \* base names of the artifact files that exist on disk
    cache,                  \* st.cache_resource memo of load_resources
    loads_attempted,        \* joblib.load calls made by the last body execution
    disk_read,              \* what the files held when the body ran
    load_log,               \* what the body of load_resources printed
    resources,              \* module-level resources (line 107)
    load_error_info,        \* module-level load_error_info (line 107)
    pc,                     \* position of the script run
    widgets_created,        \* the sidebar widgets and the button exist in this run
    all_inputs,             \* the request's feature vector (lines 421-431)
    market_pred_label,
    price_level_pred_label,
    price_level_pred_code,
    unit_price_pred,        \* a float (the sentinel -1.0 of line 439 included)
    error_messages,
    insufficient_data_flags,
    sufficiency,            \* per target: what check_sufficiency found in this run
    invoked,                \* calls of scaler.transform / model.predict of this run
    ui,                     \* what this run has shown to the user
    log,                    \* what this run has printed to the console
    previous_request        \* the outcome of the latest request of an earlier run, kept
                            \* for a request that repeats its fully populated vector

vars == <<files_present, cache, loads_attempted, disk_read, load_log, resources,
          load_error_info, pc, widgets_created, all_inputs, market_pred_label,
          price_level_pred_label, price_level_pred_code, unit_price_pred,
          error_messages, insufficient_data_flags, sufficiency, invoked, ui, log,
          previous_request>>

(***************************************************************************)
(* Bounds of the model.                                                    *)
(***************************************************************************)
\* at most this many of the eleven form fields are set to "not applicable"
MaxAbsent == 1
\* at most this many parts of the deserialized artifacts differ from the
\* nominal deployment
MaxDeviations == 2

(***************************************************************************)
(* Names and constants of the program.                                     *)
(***************************************************************************)
\* line 35; ASCII for the eight Chinese feature names, in the same order
REQUIRED_REGRESSION_FEATURES ==
    <<"district", "age", "area", "floor_count", "build_year", "rooms", "halls", "baths">>

\* lines 45-46 with os.path.basename applied (lines 26-31)
required_files ==
    <<"market_segment_lgbm_model.joblib", "price_level_rf_model.joblib",
      "unit_price_rf_model.joblib", "regression_scaler.joblib",
      "feature_names.joblib", "mappings.joblib">>

SCALER_PATH == "regression_scaler.joblib"

\* line 210
required_mappings ==
    <<"orientation", "floor_level", "district", "age", "market_category", "above_district_avg">>

\* line 211
required_features_in_file == <<"market", "price_level">>

\* keys of selectbox_inputs (lines 340-343) and of numeric_input_states (lines 373-404)
SelectFeatures == {"orientation", "floor_level", "district", "age"}
NumericFeatures == {"total_price", "area", "build_year", "floor_count", "rooms", "halls", "baths"}
UIFeatures == SelectFeatures \cup NumericFeatures

\* a feature name a feature_names.joblib list may hold that the form does not define
UndefinedFeature == "community"

\* lines 248-262: feature_to_label.get(feat, feat)
feature_to_label(feat) ==
    CASE feat = "orientation" -> "orientation:"
      [] feat = "floor_level" -> "floor level:"
      [] feat = "district" -> "district:"
      [] feat = "age" -> "age:"
      [] feat = "total_price" -> "total price (10k):"
      [] feat = "area" -> "area (m2):"
      [] feat = "build_year" -> "build year:"
      [] feat = "floor_count" -> "floor count:"
      [] feat = "rooms" -> "rooms:"
      [] feat = "halls" -> "halls:"
      [] feat = "baths" -> "baths:"
      [] OTHER -> feat

\* the status strings of lines 436-437, 483, 504, 507
LabelPending == "pending"
LabelConfigMissing == "config_missing"
LabelInsufficient == "insufficient_data"
LabelFailed == "prediction_failed"

\* line 438: the price-level code of "not computed or error"
ErrorCode == -99

(***************************************************************************)
(* Floats.                                                                 *)
(***************************************************************************)
\* a Python float: nan, an infinity, or a finite double given exactly by its
\* decimal expansion: digits (most significant first, no leading zero), the
\* last scale of them after the point (no trailing zero there); zero has no
\* digit
Fin(neg, digits, scale) == [k |-> "fin", neg |-> neg, digits |-> digits, scale |-> scale]
Infinity(neg) == [k |-> "inf", neg |-> neg, digits |-> <<>>, scale |-> 0]
NaN == [k |-> "nan", neg |-> FALSE, digits |-> <<>>, scale |-> 0]

\* line 439: -1.0
ErrorPrice == Fin(TRUE, <<1>>, 0)

(***************************************************************************)
(* Natural numbers of any size as sequences of decimal digits, with the    *)
(* arithmetic the conversion to a double needs.                            *)
(***************************************************************************)
RECURSIVE DigitsOf(_)
DigitsOf(n) == IF n = 0 THEN <<>> ELSE Append(DigitsOf(n \div 10), n % 10)

\* the number below 2^31 that at most nine digits spell
RECURSIVE NatOf(_)
NatOf(ds) == IF ds = <<>> THEN 0 ELSE NatOf(SubSeq(ds, 1, Len(ds) - 1)) * 10 + ds[Len(ds)]

StripLeadingZeros(ds) ==
    LET first == {i \in DOMAIN ds : ds[i] # 0 /\ \A j \in 1..(i - 1) : ds[j] = 0}
    IN  IF first = {} THEN <<>> ELSE SubSeq(ds, CHOOSE i \in first : TRUE, Len(ds))

RECURSIVE Power(_, _)
Power(b, n) == IF n = 0 THEN 1 ELSE b * Power(b, n - 1)

\* ds * k + carry for k below 2 * 10^8: its Len(ds) low digits and the carry
\* out of them.  The low half of ds is done first (the test of lo.carry asks
\* for it), its carry goes into the high half.
RECURSIVE Times(_, _, _)
Times(ds, k, carry) ==
    LET half == Len(ds) \div 2
        join(hi, lo) == [digits |-> hi.digits \o lo.digits, carry |-> hi.carry]
        upper(lo) == IF lo.carry < 0 THEN lo
                     ELSE join(Times(SubSeq(ds, 1, half), k, lo.carry), lo)
    IN  IF ds = <<>> THEN [digits |-> <<>>, carry |-> carry]
        ELSE IF Len(ds) = 1
        THEN [digits |-> <<(ds[1] * k + carry) % 10>>, carry |-> (ds[1] * k + carry) \div 10]
        ELSE upper(Times(SubSeq(ds, half + 1, Len(ds)), k, carry))

\* ds * k + carry as a number
Product(ds, k, carry) ==
    LET whole(t) == DigitsOf(t.carry) \o t.digits
    IN  whole(Times(ds, k, carry))

\* ds * b^n for b = 2 or 5, a few factors at a time
RECURSIVE TimesPower(_, _, _)
TimesPower(ds, b, n) ==
    LET step == IF b = 2 THEN 27 ELSE 11
    IN  IF ds = <<>> \/ n = 0 THEN ds
        ELSE IF n <= step THEN Product(ds, Power(b, n), 0)
        ELSE TimesPower(Product(ds, Power(b, step), 0), b, n - step)

\* the long division of r * 10^Len(ds) + ds by k (below 2 * 10^8, r below
\* k): the Len(ds) digits of the quotient and the remainder.  The high half
\* of ds is done first, its remainder goes into the low half.
RECURSIVE Divided(_, _, _)
Divided(ds, k, r) ==
    LET half == Len(ds) \div 2
        join(hi, lo) == [q |-> hi.q \o lo.q, r |-> lo.r]
        lower(hi) == IF hi.r < 0 THEN hi
                     ELSE join(hi, Divided(SubSeq(ds, half + 1, Len(ds)), k, hi.r))
    IN  IF ds = <<>> THEN [q |-> <<>>, r |-> r]
        ELSE IF Len(ds) = 1
        THEN [q |-> <<(r * 10 + ds[1]) \div k>>, r |-> (r * 10 + ds[1]) % k]
        ELSE lower(Divided(SubSeq(ds, 1, half), k, r))

\* floor(cut.q / b^n) for b = 2 or 5; sticky says that cut.q was cut from a
\* number with a fraction, or that a remainder is cut off here
RECURSIVE OverPower(_, _, _)
OverPower(cut, b, n) ==
    LET step == IF n <= (IF b = 2 THEN 27 ELSE 11) THEN n ELSE IF b = 2 THEN 27 ELSE 11
        next(d) == OverPower([q |-> StripLeadingZeros(d.q), sticky |-> cut.sticky \/ d.r # 0],
                             b, n - step)
    IN  IF cut.q = <<>> \/ n = 0 THEN cut
        ELSE next(Divided(cut.q, Power(b, step), 0))

\* the number of binary digits of ds
RECURSIVE BitLength(_)
BitLength(ds) ==
    IF Len(ds) <= 9
    THEN Cardinality({n \in 0..30 : Power(2, n) <= NatOf(ds)})
    ELSE 27 + BitLength(StripLeadingZeros(Divided(ds, 134217728, 0).q))

\* the finite float with these digits, brought to the normal form
Normal(neg, digits, scale) ==
    LET last == {i \in DOMAIN digits :
                    /\ digits[i] # 0 \/ i <= Len(digits) - scale
                    /\ \A j \in (i + 1)..Len(digits) : digits[j] = 0 /\ j > Len(digits) - scale}
        n == IF last = {} THEN 0 ELSE CHOOSE i \in last : TRUE
    IN  IF \A i \in DOMAIN digits : digits[i] = 0 THEN Fin(neg, <<>>, 0)
        ELSE Fin(neg, SubSeq(digits, 1, n), scale - (Len(digits) - n))

\* the double m * 2^e2 in decimal; from 2^1024 on it is an infinity
Double(neg, m, e2) ==
    IF BitLength(m) + e2 > 1024 THEN Infinity(neg)
    ELSE IF e2 >= 0 THEN Normal(neg, TimesPower(m, 2, e2), 0)
    ELSE Normal(neg, TimesPower(m, 5, -e2), -e2)

\* cut.q halved by the rule of IEEE 754: to the nearest, a tie (nothing cut
\* off before) to the even one
RoundedHalf(cut) ==
    LET round(half) ==
            IF half.r = 1 /\ (cut.sticky \/ (half.q # <<>> /\ half.q[Len(half.q)] % 2 = 1))
            THEN Product(StripLeadingZeros(half.q), 1, 1)
            ELSE StripLeadingZeros(half.q)
    IN  round(Divided(cut.q, 2, 0))

\* the double nearest to (cut.q + f) * 2^e, where 0 <= f < 1 and f > 0
\* exactly when cut.sticky: 53 significant bits, fewer below 2^-1022
Rounded(neg, cut, e) ==
    LET wide == BitLength(cut.q) - 53
        shift == IF wide > -1074 - e THEN wide ELSE -1074 - e
    IN  IF shift <= 0 THEN Double(neg, cut.q, e)
        ELSE Double(neg, RoundedHalf(OverPower(cut, 2, shift - 1)), e + shift)

\* the double nearest to digits * 10^e10 (digits without leading zeros), as
\* float() of a literal gives it: an infinity from 10^309 on, zero below
\* 10^-324, the number itself when it is a double (an integer below 10^15,
\* or a fraction of at most nine digits whose denominator is a power of 2),
\* else digits * 5^e10 * 2^e10 rounded, the division by a power of 5 carried
\* to 60 binary digits and more
Nearest(neg, digits, e10) ==
    LET magnitude == Len(digits) + e10
        wanted == 60 + (7 * (-e10)) \div 3 - 3 * (Len(digits) - 1)
        s == IF wanted > 0 THEN wanted ELSE 0
        exact == /\ Len(digits) <= 9
                 /\ IF e10 >= 0 THEN Len(digits) + e10 <= 15
                    ELSE -e10 <= 12 /\ NatOf(digits) % Power(5, -e10) = 0
    IN  IF digits = <<>> \/ magnitude < -324 THEN Fin(neg, <<>>, 0)
        ELSE IF magnitude > 309 THEN Infinity(neg)
        ELSE IF exact
        THEN Normal(neg, digits \o [i \in 1..e10 |-> 0], IF e10 < 0 THEN -e10 ELSE 0)
        ELSE IF e10 >= 0
        THEN Rounded(neg, [q |-> TimesPower(digits, 5, e10), sticky |-> FALSE], e10)
        ELSE Rounded(neg,
                     OverPower([q |-> TimesPower(digits, 2, s), sticky |-> FALSE], 5, -e10),
                     e10 - s)

\* format(v, ",.0f") as characters: rounded to an integer, a tie to the
\* even one, the digits in groups of three
Formatted(v) ==
    LET n == Len(v.digits) - v.scale
        int == IF n > 0 THEN SubSeq(v.digits, 1, n) ELSE <<>>
        first == IF n >= 0 /\ v.scale > 0 THEN v.digits[n + 1] ELSE 0
        odd == int # <<>> /\ int[Len(int)] % 2 = 1
        up == first > 5 \/ (first = 5 /\ (v.scale > 1 \/ odd))
        rounded == IF up THEN Product(int, 1, 1) ELSE int
        shown == IF rounded = <<>> THEN <<0>> ELSE rounded
        total == Len(shown) + (Len(shown) - 1) \div 3
        grouped == [j \in 1..total |->
                        IF (total - j) % 4 = 3 THEN 44
                        ELSE 48 + shown[Len(shown) - ((total - j) - (total - j) \div 4)]]
    IN  CASE v.k = "nan" -> <<110, 97, 110>>
          [] v.k = "inf" -> (IF v.neg THEN <<45>> ELSE <<>>) \o <<105, 110, 102>>
          [] OTHER -> (IF v.neg THEN <<45>> ELSE <<>>) \o grouped

(***************************************************************************)
(* Values.                                                                 *)
(***************************************************************************)
\* a form value: Python None, or a number / category code
None == [isNone |-> TRUE, val |-> 0]
Some(v) == [isNone |-> FALSE, val |-> v]

\* the elements of a sequence
Range(s) == {s[i] : i \in DOMAIN s}

(***************************************************************************)
(* Text.  A str or bytes object that the program converts (a prediction    *)
(* handed to int(), str() or float()) is the sequence of its code points.  *)
(***************************************************************************)
\* the decimal digits
DigitChars == <<"0", "1", "2", "3", "4", "5", "6", "7", "8", "9">>

\* str(n) of an integer, as a token
RECURSIVE NumStr(_)
NumStr(n) ==
    IF n < 0 THEN "-" \o NumStr(-n)
    ELSE IF n < 10 THEN DigitChars[n + 1]
    ELSE NumStr(n \div 10) \o DigitChars[(n % 10) + 1]

\* the printable ASCII characters, from the space (32) to the tilde (126);
\* the grave accent, which no string of TLA+ holds, is written \x60
AsciiChars ==
    <<" ", "!", "\"", "#", "$", "%", "&", "'", "(", ")", "*", "+", ",", "-", ".", "/", "0",
      "1", "2", "3", "4", "5", "6", "7", "8", "9", ":", ";", "<", "=", ">", "?", "@", "A",
      "B", "C", "D", "E", "F", "G", "H", "I", "J", "K", "L", "M", "N", "O", "P", "Q", "R",
      "S", "T", "U", "V", "W", "X", "Y", "Z", "[", "\\", "]", "^", "_", "\\x60", "a", "b", "c",
      "d", "e", "f", "g", "h", "i", "j", "k", "l", "m", "n", "o", "p", "q", "r", "s", "t",
      "u", "v", "w", "x", "y", "z", "{", "|", "}", "~">>

\* the parts one after the other
RECURSIVE Flat(_)
Flat(parts) == IF parts = <<>> THEN <<>> ELSE Head(parts) \o Flat(Tail(parts))

\* n in width hexadecimal digits, as repr() writes them
Hex(n, width) ==
    [i \in 1..width |->
        LET d == (n \div Power(16, width - i)) % 16
        IN  IF d < 10 THEN 48 + d ELSE 87 + d]

\* the ranges of the code points above 127 that str.isprintable() rejects
\* (Unicode 14, the version of Python 3.11): controls, separators, format
\* characters, surrogates, private-use and unassigned code points
NotPrintable ==
    {<<128, 160>>, <<173, 173>>, <<888, 889>>, <<896, 899>>, <<907, 907>>, <<909, 909>>,
     <<930, 930>>, <<1328, 1328>>, <<1367, 1368>>, <<1419, 1420>>, <<1424, 1424>>,
     <<1480, 1487>>, <<1515, 1518>>, <<1525, 1541>>, <<1564, 1564>>, <<1757, 1757>>,
     <<1806, 1807>>, <<1867, 1868>>, <<1970, 1983>>, <<2043, 2044>>, <<2094, 2095>>,
     <<2111, 2111>>, <<2140, 2141>>, <<2143, 2143>>, <<2155, 2159>>, <<2191, 2199>>,
     <<2274, 2274>>, <<2436, 2436>>, <<2445, 2446>>, <<2449, 2450>>, <<2473, 2473>>,
     <<2481, 2481>>, <<2483, 2485>>, <<2490, 2491>>, <<2501, 2502>>, <<2505, 2506>>,
     <<2511, 2518>>, <<2520, 2523>>, <<2526, 2526>>, <<2532, 2533>>, <<2559, 2560>>,
     <<2564, 2564>>, <<2571, 2574>>, <<2577, 2578>>, <<2601, 2601>>, <<2609, 2609>>,
     <<2612, 2612>>, <<2615, 2615>>, <<2618, 2619>>, <<2621, 2621>>, <<2627, 2630>>,
     <<2633, 2634>>, <<2638, 2640>>, <<2642, 2648>>, <<2653, 2653>>, <<2655, 2661>>,
     <<2679, 2688>>, <<2692, 2692>>, <<2702, 2702>>, <<2706, 2706>>, <<2729, 2729>>,
     <<2737, 2737>>, <<2740, 2740>>, <<2746, 2747>>, <<2758, 2758>>, <<2762, 2762>>,
     <<2766, 2767>>, <<2769, 2783>>, <<2788, 2789>>, <<2802, 2808>>, <<2816, 2816>>,
     <<2820, 2820>>, <<2829, 2830>>, <<2833, 2834>>, <<2857, 2857>>, <<2865, 2865>>,
     <<2868, 2868>>, <<2874, 2875>>, <<2885, 2886>>, <<2889, 2890>>, <<2894, 2900>>,
     <<2904, 2907>>, <<2910, 2910>>, <<2916, 2917>>, <<2936, 2945>>, <<2948, 2948>>,
     <<2955, 2957>>, <<2961, 2961>>, <<2966, 2968>>, <<2971, 2971>>, <<2973, 2973>>,
     <<2976, 2978>>, <<2981, 2983>>, <<2987, 2989>>, <<3002, 3005>>, <<3011, 3013>>,
     <<3017, 3017>>, <<3022, 3023>>, <<3025, 3030>>, <<3032, 3045>>, <<3067, 3071>>,
     <<3085, 3085>>, <<3089, 3089>>, <<3113, 3113>>, <<3130, 3131>>, <<3141, 3141>>,
     <<3145, 3145>>, <<3150, 3156>>, <<3159, 3159>>, <<3163, 3164>>, <<3166, 3167>>,
     <<3172, 3173>>, <<3184, 3190>>, <<3213, 3213>>, <<3217, 3217>>, <<3241, 3241>>,
     <<3252, 3252>>, <<3258, 3259>>, <<3269, 3269>>, <<3273, 3273>>, <<3278, 3284>>,
     <<3287, 3292>>, <<3295, 3295>>, <<3300, 3301>>, <<3312, 3312>>, <<3315, 3327>>,
     <<3341, 3341>>, <<3345, 3345>>, <<3397, 3397>>, <<3401, 3401>>, <<3408, 3411>>,
     <<3428, 3429>>, <<3456, 3456>>, <<3460, 3460>>, <<3479, 3481>>, <<3506, 3506>>,
     <<3516, 3516>>, <<3518, 3519>>, <<3527, 3529>>, <<3531, 3534>>, <<3541, 3541>>,
     <<3543, 3543>>, <<3552, 3557>>, <<3568, 3569>>, <<3573, 3584>>, <<3643, 3646>>,
     <<3676, 3712>>, <<3715, 3715>>, <<3717, 3717>>, <<3723, 3723>>, <<3748, 3748>>,
     <<3750, 3750>>, <<3774, 3775>>, <<3781, 3781>>, <<3783, 3783>>, <<3790, 3791>>,
     <<3802, 3803>>, <<3808, 3839>>, <<3912, 3912>>, <<3949, 3952>>, <<3992, 3992>>,
     <<4029, 4029>>, <<4045, 4045>>, <<4059, 4095>>, <<4294, 4294>>, <<4296, 4300>>,
     <<4302, 4303>>, <<4681, 4681>>, <<4686, 4687>>, <<4695, 4695>>, <<4697, 4697>>,
     <<4702, 4703>>, <<4745, 4745>>, <<4750, 4751>>, <<4785, 4785>>, <<4790, 4791>>,
     <<4799, 4799>>, <<4801, 4801>>, <<4806, 4807>>, <<4823, 4823>>, <<4881, 4881>>,
     <<4886, 4887>>, <<4955, 4956>>, <<4989, 4991>>, <<5018, 5023>>, <<5110, 5111>>,
     <<5118, 5119>>, <<5760, 5760>>, <<5789, 5791>>, <<5881, 5887>>, <<5910, 5918>>,
     <<5943, 5951>>, <<5972, 5983>>, <<5997, 5997>>, <<6001, 6001>>, <<6004, 6015>>,
     <<6110, 6111>>, <<6122, 6127>>, <<6138, 6143>>, <<6158, 6158>>, <<6170, 6175>>,
     <<6265, 6271>>, <<6315, 6319>>, <<6390, 6399>>, <<6431, 6431>>, <<6444, 6447>>,
     <<6460, 6463>>, <<6465, 6467>>, <<6510, 6511>>, <<6517, 6527>>, <<6572, 6575>>,
     <<6602, 6607>>, <<6619, 6621>>, <<6684, 6685>>, <<6751, 6751>>, <<6781, 6782>>,
     <<6794, 6799>>, <<6810, 6815>>, <<6830, 6831>>, <<6863, 6911>>, <<6989, 6991>>,
     <<7039, 7039>>, <<7156, 7163>>, <<7224, 7226>>, <<7242, 7244>>, <<7305, 7311>>,
     <<7355, 7356>>, <<7368, 7375>>, <<7419, 7423>>, <<7958, 7959>>, <<7966, 7967>>,
     <<8006, 8007>>, <<8014, 8015>>, <<8024, 8024>>, <<8026, 8026>>, <<8028, 8028>>,
     <<8030, 8030>>, <<8062, 8063>>, <<8117, 8117>>, <<8133, 8133>>, <<8148, 8149>>,
     <<8156, 8156>>, <<8176, 8177>>, <<8181, 8181>>, <<8191, 8207>>, <<8232, 8239>>,
     <<8287, 8303>>, <<8306, 8307>>, <<8335, 8335>>, <<8349, 8351>>, <<8385, 8399>>,
     <<8433, 8447>>, <<8588, 8591>>, <<9255, 9279>>, <<9291, 9311>>, <<11124, 11125>>,
     <<11158, 11158>>, <<11508, 11512>>, <<11558, 11558>>, <<11560, 11564>>, <<11566, 11567>>,
     <<11624, 11630>>, <<11633, 11646>>, <<11671, 11679>>, <<11687, 11687>>, <<11695, 11695>>,
     <<11703, 11703>>, <<11711, 11711>>, <<11719, 11719>>, <<11727, 11727>>, <<11735, 11735>>,
     <<11743, 11743>>, <<11870, 11903>>, <<11930, 11930>>, <<12020, 12031>>, <<12246, 12271>>,
     <<12284, 12288>>, <<12352, 12352>>, <<12439, 12440>>, <<12544, 12548>>, <<12592, 12592>>,
     <<12687, 12687>>, <<12772, 12783>>, <<12831, 12831>>, <<42125, 42127>>, <<42183, 42191>>,
     <<42540, 42559>>, <<42744, 42751>>, <<42955, 42959>>, <<42962, 42962>>, <<42964, 42964>>,
     <<42970, 42993>>, <<43053, 43055>>, <<43066, 43071>>, <<43128, 43135>>, <<43206, 43213>>,
     <<43226, 43231>>, <<43348, 43358>>, <<43389, 43391>>, <<43470, 43470>>, <<43482, 43485>>,
     <<43519, 43519>>, <<43575, 43583>>, <<43598, 43599>>, <<43610, 43611>>, <<43715, 43738>>,
     <<43767, 43776>>, <<43783, 43784>>, <<43791, 43792>>, <<43799, 43807>>, <<43815, 43815>>,
     <<43823, 43823>>, <<43884, 43887>>, <<44014, 44015>>, <<44026, 44031>>, <<55204, 55215>>,
     <<55239, 55242>>, <<55292, 63743>>, <<64110, 64111>>, <<64218, 64255>>, <<64263, 64274>>,
     <<64280, 64284>>, <<64311, 64311>>, <<64317, 64317>>, <<64319, 64319>>, <<64322, 64322>>,
     <<64325, 64325>>, <<64451, 64466>>, <<64912, 64913>>, <<64968, 64974>>, <<64976, 65007>>,
     <<65050, 65055>>, <<65107, 65107>>, <<65127, 65127>>, <<65132, 65135>>, <<65141, 65141>>,
     <<65277, 65280>>, <<65471, 65473>>, <<65480, 65481>>, <<65488, 65489>>, <<65496, 65497>>,
     <<65501, 65503>>, <<65511, 65511>>, <<65519, 65531>>, <<65534, 65535>>, <<65548, 65548>>,
     <<65575, 65575>>, <<65595, 65595>>, <<65598, 65598>>, <<65614, 65615>>, <<65630, 65663>>,
     <<65787, 65791>>, <<65795, 65798>>, <<65844, 65846>>, <<65935, 65935>>, <<65949, 65951>>,
     <<65953, 65999>>, <<66046, 66175>>, <<66205, 66207>>, <<66257, 66271>>, <<66300, 66303>>,
     <<66340, 66348>>, <<66379, 66383>>, <<66427, 66431>>, <<66462, 66462>>, <<66500, 66503>>,
     <<66518, 66559>>, <<66718, 66719>>, <<66730, 66735>>, <<66772, 66775>>, <<66812, 66815>>,
     <<66856, 66863>>, <<66916, 66926>>, <<66939, 66939>>, <<66955, 66955>>, <<66963, 66963>>,
     <<66966, 66966>>, <<66978, 66978>>, <<66994, 66994>>, <<67002, 67002>>, <<67005, 67071>>,
     <<67383, 67391>>, <<67414, 67423>>, <<67432, 67455>>, <<67462, 67462>>, <<67505, 67505>>,
     <<67515, 67583>>, <<67590, 67591>>, <<67593, 67593>>, <<67638, 67638>>, <<67641, 67643>>,
     <<67645, 67646>>, <<67670, 67670>>, <<67743, 67750>>, <<67760, 67807>>, <<67827, 67827>>,
     <<67830, 67834>>, <<67868, 67870>>, <<67898, 67902>>, <<67904, 67967>>, <<68024, 68027>>,
     <<68048, 68049>>, <<68100, 68100>>, <<68103, 68107>>, <<68116, 68116>>, <<68120, 68120>>,
     <<68150, 68151>>, <<68155, 68158>>, <<68169, 68175>>, <<68185, 68191>>, <<68256, 68287>>,
     <<68327, 68330>>, <<68343, 68351>>, <<68406, 68408>>, <<68438, 68439>>, <<68467, 68471>>,
     <<68498, 68504>>, <<68509, 68520>>, <<68528, 68607>>, <<68681, 68735>>, <<68787, 68799>>,
     <<68851, 68857>>, <<68904, 68911>>, <<68922, 69215>>, <<69247, 69247>>, <<69290, 69290>>,
     <<69294, 69295>>, <<69298, 69375>>, <<69416, 69423>>, <<69466, 69487>>, <<69514, 69551>>,
     <<69580, 69599>>, <<69623, 69631>>, <<69710, 69713>>, <<69750, 69758>>, <<69821, 69821>>,
     <<69827, 69839>>, <<69865, 69871>>, <<69882, 69887>>, <<69941, 69941>>, <<69960, 69967>>,
     <<70007, 70015>>, <<70112, 70112>>, <<70133, 70143>>, <<70162, 70162>>, <<70207, 70271>>,
     <<70279, 70279>>, <<70281, 70281>>, <<70286, 70286>>, <<70302, 70302>>, <<70314, 70319>>,
     <<70379, 70383>>, <<70394, 70399>>, <<70404, 70404>>, <<70413, 70414>>, <<70417, 70418>>,
     <<70441, 70441>>, <<70449, 70449>>, <<70452, 70452>>, <<70458, 70458>>, <<70469, 70470>>,
     <<70473, 70474>>, <<70478, 70479>>, <<70481, 70486>>, <<70488, 70492>>, <<70500, 70501>>,
     <<70509, 70511>>, <<70517, 70655>>, <<70748, 70748>>, <<70754, 70783>>, <<70856, 70863>>,
     <<70874, 71039>>, <<71094, 71095>>, <<71134, 71167>>, <<71237, 71247>>, <<71258, 71263>>,
     <<71277, 71295>>, <<71354, 71359>>, <<71370, 71423>>, <<71451, 71452>>, <<71468, 71471>>,
     <<71495, 71679>>, <<71740, 71839>>, <<71923, 71934>>, <<71943, 71944>>, <<71946, 71947>>,
     <<71956, 71956>>, <<71959, 71959>>, <<71990, 71990>>, <<71993, 71994>>, <<72007, 72015>>,
     <<72026, 72095>>, <<72104, 72105>>, <<72152, 72153>>, <<72165, 72191>>, <<72264, 72271>>,
     <<72355, 72367>>, <<72441, 72703>>, <<72713, 72713>>, <<72759, 72759>>, <<72774, 72783>>,
     <<72813, 72815>>, <<72848, 72849>>, <<72872, 72872>>, <<72887, 72959>>, <<72967, 72967>>,
     <<72970, 72970>>, <<73015, 73017>>, <<73019, 73019>>, <<73022, 73022>>, <<73032, 73039>>,
     <<73050, 73055>>, <<73062, 73062>>, <<73065, 73065>>, <<73103, 73103>>, <<73106, 73106>>,
     <<73113, 73119>>, <<73130, 73439>>, <<73465, 73647>>, <<73649, 73663>>, <<73714, 73726>>,
     <<74650, 74751>>, <<74863, 74863>>, <<74869, 74879>>, <<75076, 77711>>, <<77811, 77823>>,
     <<78895, 82943>>, <<83527, 92159>>, <<92729, 92735>>, <<92767, 92767>>, <<92778, 92781>>,
     <<92863, 92863>>, <<92874, 92879>>, <<92910, 92911>>, <<92918, 92927>>, <<92998, 93007>>,
     <<93018, 93018>>, <<93026, 93026>>, <<93048, 93052>>, <<93072, 93759>>, <<93851, 93951>>,
     <<94027, 94030>>, <<94088, 94094>>, <<94112, 94175>>, <<94181, 94191>>, <<94194, 94207>>,
     <<100344, 100351>>, <<101590, 101631>>, <<101641, 110575>>, <<110580, 110580>>,
     <<110588, 110588>>, <<110591, 110591>>, <<110883, 110927>>, <<110931, 110947>>,
     <<110952, 110959>>, <<111356, 113663>>, <<113771, 113775>>, <<113789, 113791>>,
     <<113801, 113807>>, <<113818, 113819>>, <<113824, 118527>>, <<118574, 118575>>,
     <<118599, 118607>>, <<118724, 118783>>, <<119030, 119039>>, <<119079, 119080>>,
     <<119155, 119162>>, <<119275, 119295>>, <<119366, 119519>>, <<119540, 119551>>,
     <<119639, 119647>>, <<119673, 119807>>, <<119893, 119893>>, <<119965, 119965>>,
     <<119968, 119969>>, <<119971, 119972>>, <<119975, 119976>>, <<119981, 119981>>,
     <<119994, 119994>>, <<119996, 119996>>, <<120004, 120004>>, <<120070, 120070>>,
     <<120075, 120076>>, <<120085, 120085>>, <<120093, 120093>>, <<120122, 120122>>,
     <<120127, 120127>>, <<120133, 120133>>, <<120135, 120137>>, <<120145, 120145>>,
     <<120486, 120487>>, <<120780, 120781>>, <<121484, 121498>>, <<121504, 121504>>,
     <<121520, 122623>>, <<122655, 122879>>, <<122887, 122887>>, <<122905, 122906>>,
     <<122914, 122914>>, <<122917, 122917>>, <<122923, 123135>>, <<123181, 123183>>,
     <<123198, 123199>>, <<123210, 123213>>, <<123216, 123535>>, <<123567, 123583>>,
     <<123642, 123646>>, <<123648, 124895>>, <<124903, 124903>>, <<124908, 124908>>,
     <<124911, 124911>>, <<124927, 124927>>, <<125125, 125126>>, <<125143, 125183>>,
     <<125260, 125263>>, <<125274, 125277>>, <<125280, 126064>>, <<126133, 126208>>,
     <<126270, 126463>>, <<126468, 126468>>, <<126496, 126496>>, <<126499, 126499>>,
     <<126501, 126502>>, <<126504, 126504>>, <<126515, 126515>>, <<126520, 126520>>,
     <<126522, 126522>>, <<126524, 126529>>, <<126531, 126534>>, <<126536, 126536>>,
     <<126538, 126538>>, <<126540, 126540>>, <<126544, 126544>>, <<126547, 126547>>,
     <<126549, 126550>>, <<126552, 126552>>, <<126554, 126554>>, <<126556, 126556>>,
     <<126558, 126558>>, <<126560, 126560>>, <<126563, 126563>>, <<126565, 126566>>,
     <<126571, 126571>>, <<126579, 126579>>, <<126584, 126584>>, <<126589, 126589>>,
     <<126591, 126591>>, <<126602, 126602>>, <<126620, 126624>>, <<126628, 126628>>,
     <<126634, 126634>>, <<126652, 126703>>, <<126706, 126975>>, <<127020, 127023>>,
     <<127124, 127135>>, <<127151, 127152>>, <<127168, 127168>>, <<127184, 127184>>,
     <<127222, 127231>>, <<127406, 127461>>, <<127491, 127503>>, <<127548, 127551>>,
     <<127561, 127567>>, <<127570, 127583>>, <<127590, 127743>>, <<128728, 128732>>,
     <<128749, 128751>>, <<128765, 128767>>, <<128884, 128895>>, <<128985, 128991>>,
     <<129004, 129007>>, <<129009, 129023>>, <<129036, 129039>>, <<129096, 129103>>,
     <<129114, 129119>>, <<129160, 129167>>, <<129198, 129199>>, <<129202, 129279>>,
     <<129620, 129631>>, <<129646, 129647>>, <<129653, 129655>>, <<129661, 129663>>,
     <<129671, 129679>>, <<129709, 129711>>, <<129723, 129727>>, <<129734, 129743>>,
     <<129754, 129759>>, <<129768, 129775>>, <<129783, 129791>>, <<129939, 129939>>,
     <<129995, 130031>>, <<130042, 131071>>, <<173792, 173823>>, <<177977, 177983>>,
     <<178206, 178207>>, <<183970, 183983>>, <<191457, 194559>>, <<195102, 196607>>,
     <<201547, 917759>>, <<918000, 1114111>>}

\* isprintable() of a character: the ASCII characters from the space to the
\* tilde, and above them what is not in the table NotPrintable
IsPrintable(ch) ==
    IF ch < 128 THEN ch \in 32..126
    ELSE ~\E r \in NotPrintable : ch \in r[1]..r[2]

\* what repr() writes for one character or byte between the quotes
Escaped(ch, quote, printable) ==
    IF ch = 92 \/ ch = quote THEN <<92, ch>>
    ELSE IF ch = 9 THEN <<92, 116>>
    ELSE IF ch = 10 THEN <<92, 110>>
    ELSE IF ch = 13 THEN <<92, 114>>
    ELSE IF printable THEN <<ch>>
    ELSE IF ch < 256 THEN <<92, 120>> \o Hex(ch, 2)
    ELSE IF ch < 65536 THEN <<92, 117>> \o Hex(ch, 4)
    ELSE <<92, 85>> \o Hex(ch, 8)

\* the quote repr() puts around a text: the double one when the text holds
\* a single quote and no double quote
QuoteOf(chars) ==
    IF (\E i \in DOMAIN chars : chars[i] = 39) /\ ~(\E i \in DOMAIN chars : chars[i] = 34)
    THEN 34 ELSE 39

\* repr() of a str
StrRepr(chars) ==
    <<QuoteOf(chars)>>
    \o Flat([i \in DOMAIN chars |-> Escaped(chars[i], QuoteOf(chars), IsPrintable(chars[i]))])
    \o <<QuoteOf(chars)>>

\* repr() of a bytes object, which is str() of it as well
BytesRepr(chars) ==
    <<98, QuoteOf(chars)>>
    \o Flat([i \in DOMAIN chars |-> Escaped(chars[i], QuoteOf(chars), chars[i] \in 32..126)])
    \o <<QuoteOf(chars)>>

\* line 712: the code points of the text the display looks for in a message
MarkerChars == <<32553, 25918, 22120, 19982, 25552, 20379, 30340, 29305, 24449, 19981, 21305, 37197>>

\* the marker of line 581 that line 712 looks for, as a token
ScalerMismatchMarker == "scaler does not match the provided features."

\* the token that stands for a stretch of text: its printable ASCII
\* characters as they are, any other code point as \u and its hexadecimal
\* digits (the backslash doubled)
RECURSIVE Token(_)
Token(chars) ==
    IF chars = <<>> THEN ""
    ELSE (IF Head(chars) = 92 THEN "\\\\"
          ELSE IF Head(chars) \in 32..126 THEN AsciiChars[Head(chars) - 31]
          ELSE "\\u" \o Token(Hex(Head(chars), 6)))
         \o Token(Tail(chars))

\* a text as the tokens of a message: the marker token wherever the text
\* holds the marker, one token for every stretch between
RECURSIVE TextTokens(_)
TextTokens(chars) ==
    LET n == Len(MarkerChars)
        at == {i \in 1..(Len(chars) - n + 1) : SubSeq(chars, i, i + n - 1) = MarkerChars}
        first == CHOOSE i \in at : \A j \in at : i <= j
    IN  IF chars = <<>> THEN <<>>
        ELSE IF at = {} THEN <<Token(chars)>>
        ELSE (IF first = 1 THEN <<>> ELSE <<Token(SubSeq(chars, 1, first - 1))>>)
             \o <<ScalerMismatchMarker>>
             \o TextTokens(SubSeq(chars, first + n, Len(chars)))

\* a Python exception: its class and str(e) as tokens
Exc(type, text) == [type |-> type, text |-> text]
NoExc == Exc("", <<>>)

\* what model.predict(...)[0] can be.  t is its kind, s is str() of it and
\* chars its content, both as code points:
\*   int      a Python int, a bool or a numpy integer, n
\*   float    a Python float or numpy.float64 (a subclass of it), v
\*   str      a str
\*   bytes    a bytes object
\*   buffer   another object with the buffer protocol (bytearray, memoryview)
\*   real     an object of class cls that is no int and no float and has
\*            __float__ or __index__ (numpy.float32, numpy.bool_), giving v
\*   obj      an object of class cls that has neither
Raw(t, n, v, s, chars, cls) ==
    [t |-> t, n |-> n, v |-> v, s |-> s, chars |-> chars, cls |-> cls]

RawInt(n) == Raw("int", n, NaN, <<>>, <<>>, <<>>)
\* the float nearest to tenths / 10, as the literal "5234.5" gives it
RawFloat(tenths) ==
    Raw("float", 0, Nearest(tenths < 0, DigitsOf(IF tenths < 0 THEN -tenths ELSE tenths), -1),
        <<>>, <<>>, <<>>)
RawNaN == Raw("float", 0, NaN, <<>>, <<>>, <<>>)
RawInfinity(neg) == Raw("float", 0, Infinity(neg), <<>>, <<>>, <<>>)
RawStr(chars) == Raw("str", 0, NaN, chars, chars, <<>>)
RawBytes(chars) == Raw("bytes", 0, NaN, BytesRepr(chars), chars, <<>>)
RawBuffer(s, chars) == Raw("buffer", 0, NaN, s, chars, <<>>)
RawReal(cls, s, v) == Raw("real", 0, v, s, <<>>, cls)
RawObj(cls, s) == Raw("obj", 0, NaN, s, <<>>, cls)

\* bytearray(b"..."): str() of it is its repr(), which puts a backslash
\* before every single quote
RawByteArray(chars) ==
    RawBuffer(<<98, 121, 116, 101, 97, 114, 114, 97, 121, 40, 98, QuoteOf(chars)>>
              \o Flat([i \in DOMAIN chars |-> Escaped(chars[i], 39, chars[i] \in 32..126)])
              \o <<QuoteOf(chars), 41>>,
              chars)

\* a key of an output mapping: int or str
IntKey(n) == [t |-> "int", n |-> n, s |-> <<>>]
StrKey(s) == [t |-> "str", n |-> 0, s |-> s]
NoKey == [t |-> "none", n |-> 0, s |-> <<>>]

\* a label: a str of the mapping, or the default f"unknown code ({key})"
Label(s) == [text |-> s, key |-> NoKey]
UnknownCode(key) == [text |-> "unknown_code", key |-> key]

\* a model object: predict raises exc or returns raw, whatever the row
Raises(e) == [kind |-> "raise", exc |-> e, raw |-> RawInt(0)]
Returns(r) == [kind |-> "return", exc |-> NoExc, raw |-> r]

\* a scaler object: n_features_in_ (when has_n), and the exception transform
\* raises for a row of the expected width (NoExc: none)
Scaler(has_n, n, exc) == [has_n |-> has_n, n |-> n, exc |-> exc]

\* an entry of the dict in feature_names.joblib
Absent == [present |-> FALSE, is_list |-> FALSE, items |-> <<>>]
ListOf(items) == [present |-> TRUE, is_list |-> TRUE, items |-> items]
TupleOf(items) == [present |-> TRUE, is_list |-> FALSE, items |-> items]


Contains(text, token) == token \in Range(text)

(***************************************************************************)
(* The deserialized artifacts.  joblib.load returns whatever the six files *)
(* hold; the model draws the contents from the sets below.  Each part has  *)
(* a nominal value (a consistent deployment) and a few deviations.         *)
(***************************************************************************)
NominalMarketList == <<"orientation", "floor_level", "district", "age", "area">>
NominalPriceLevelList == <<"district", "total_price", "area">>

MarketModels ==
    << Returns(RawInt(1)),
       Raises(Exc("Exception", <<"lightgbm:", "boom">>)),
       Returns(RawInt(7)),
       Returns(RawFloat(15)),
       Returns(RawStr(<<65>>)),                    \* "A"
       Returns(RawNaN) >>

PriceLevelModels ==
    << Returns(RawInt(1)),
       Raises(Exc("Exception", <<"forest:", "boom">>)),
       Returns(RawInt(0)),
       Returns(RawInt(2)),
       Returns(RawStr(<<49>>)),                    \* "1"
       Returns(RawFloat(10)),
       Raises(Exc("SystemExit", <<"model unavailable">>)) >>

RegressionModels ==
    << Returns(RawFloat(52345)),
       Raises(Exc("Exception", <<"regressor:", "boom">>)),
       Returns(RawNaN),
       Returns(RawStr(<<11, 50, 46, 53>>)),        \* "\v2.5"
       Returns(RawStr(MarkerChars)),
       Returns(RawObj(<<80, 114, 105, 99, 101>>, <<49>>)),     \* a Price object, str() "1"
       Returns(RawByteArray(<<45, 49, 46, 48>>)) >> \* bytearray(b"-1.0")

Scalers ==
    << Scaler(TRUE, 8, NoExc),
       Scaler(TRUE, 7, NoExc),
       Scaler(FALSE, 0, NoExc),
       Scaler(TRUE, 8, Exc("ValueError", <<"Input X contains", "infinity">>)),
       Scaler(FALSE, 0, Exc("UnicodeError", <<"X has", "8", "features, but this scaler expects", "7">>)),
       Scaler(FALSE, 0, Exc("TypeError", <<"unsupported operand">>)) >>

MarketLists ==
    << ListOf(NominalMarketList),
       Absent,
       TupleOf(NominalMarketList),
       ListOf(<<>>),
       ListOf(<<"district", UndefinedFeature>>) >>

PriceLevelLists ==
    << ListOf(NominalPriceLevelList),
       Absent,
       ListOf(<<>>),
       ListOf(<<UndefinedFeature, "area">>) >>

RegressionLists ==
    << ListOf(REQUIRED_REGRESSION_FEATURES),
       Absent,
       ListOf(<<>>),
       ListOf(<<"age", "district", "area", "floor_count", "build_year", "rooms", "halls", "baths">>),
       ListOf(<<"district", "age", "area", "floor_count", "build_year", "rooms", "halls">>),
       TupleOf(<<"district", "age">>) >>

\* the keys of mappings.joblib that are missing or are not a dict
BadMappingKeys == << {}, {"orientation"}, {"market_category"} >>

MarketCategoryMaps ==
    << (IntKey(0) :> "low_end") @@ (IntKey(1) :> "mid_range") @@ (IntKey(2) :> "high_end"),
       \* the keys "0", "1" and "A"
       (StrKey(<<48>>) :> "low_end") @@ (StrKey(<<49>>) :> "mid_range")
            @@ (StrKey(<<65>>) :> "segment_A"),
       (IntKey(0) :> "low_end") @@ (IntKey(1) :> LabelFailed) @@ (IntKey(2) :> "high_end") >>

AboveAvgMaps ==
    << (IntKey(0) :> "not_above_avg") @@ (IntKey(1) :> "above_avg"),
       \* the keys "0" and "1"
       (StrKey(<<48>>) :> "not_above_avg") @@ (StrKey(<<49>>) :> "above_avg"),
       (IntKey(0) :> "not_above_avg") @@ (IntKey(1) :> LabelInsufficient) >>

\* a choice of one variant per part; index 1 is the nominal one.  The
\* choices are those that differ from the nominal one in at most
\* MaxDeviations parts: for every set D of so many parts, the choices that
\* take another variant exactly in the parts of D
Choices ==
    LET parts == {"market_model", "price_level_model", "regression_model", "scaler",
                  "fn_is_dict", "fn_market", "fn_price_level", "fn_regression",
                  "bad_mappings", "market_category", "above_district_avg"}
        variants(D, part, all) == IF part \in D THEN all \ {1} ELSE {1}
        deviating(D) ==
            [market_model : variants(D, "market_model", DOMAIN MarketModels),
             price_level_model : variants(D, "price_level_model", DOMAIN PriceLevelModels),
             regression_model : variants(D, "regression_model", DOMAIN RegressionModels),
             scaler : variants(D, "scaler", DOMAIN Scalers),
             fn_is_dict : variants(D, "fn_is_dict", 1..2),
             fn_market : variants(D, "fn_market", DOMAIN MarketLists),
             fn_price_level : variants(D, "fn_price_level", DOMAIN PriceLevelLists),
             fn_regression : variants(D, "fn_regression", DOMAIN RegressionLists),
             bad_mappings : variants(D, "bad_mappings", DOMAIN BadMappingKeys),
             market_category : variants(D, "market_category", DOMAIN MarketCategoryMaps),
             above_district_avg : variants(D, "above_district_avg", DOMAIN AboveAvgMaps)]
    IN  UNION {deviating(D) : D \in {S \in SUBSET parts : Cardinality(S) <= MaxDeviations}}

ContentsOf(ch) ==
    [market_model |-> MarketModels[ch.market_model],
     price_level_model |-> PriceLevelModels[ch.price_level_model],
     regression_model |-> RegressionModels[ch.regression_model],
     scaler |-> Scalers[ch.scaler],
     feature_names |->
        [is_dict |-> ch.fn_is_dict = 1,
         market |-> MarketLists[ch.fn_market],
         price_level |-> PriceLevelLists[ch.fn_price_level],
         regression |-> RegressionLists[ch.fn_regression]],
     mappings |->
        [bad |-> BadMappingKeys[ch.bad_mappings],
         market_category |-> MarketCategoryMaps[ch.market_category],
         above_district_avg |-> AboveAvgMaps[ch.above_district_avg]]]

ArtifactContents == {ContentsOf(ch) : ch \in Choices}

NominalContents ==
    ContentsOf([market_model |-> 1, price_level_model |-> 1, regression_model |-> 1,
                scaler |-> 1, fn_is_dict |-> 1, fn_market |-> 1, fn_price_level |-> 1,
                fn_regression |-> 1, bad_mappings |-> 1, market_category |-> 1,
                above_district_avg |-> 1])

\* what reading the files does: joblib.load of the throw_at-th file raises
\* exc (throw_at = 0: none raises), else the files hold contents
DiskOutcomes ==
    [throw_at : 1..Len(required_files),
     exc : {Exc("Exception", <<"unpickling", "failed">>), Exc("KeyboardInterrupt", <<"stop">>)},
     contents : {NominalContents}]
    \cup [throw_at : {0}, exc : {NoExc}, contents : ArtifactContents]

\* no joblib.load has been called
NothingRead == [throw_at |-> 0, exc |-> NoExc, contents |-> NominalContents]

(***************************************************************************)
(* The except clauses.                                                     *)
(***************************************************************************)
\* a variant that catches ValueError only
CaughtByExcept_value_error_only(exc) == exc.type = "ValueError"

\* the built-in classes that derive from BaseException and not from
\* Exception, and asyncio.CancelledError
NotExceptions ==
    {"BaseException", "BaseExceptionGroup", "SystemExit", "KeyboardInterrupt", "GeneratorExit",
     "CancelledError"}

\* lines 101, 499, 541, 592: "except Exception" catches what derives from Exception
CaughtByExcept(exc) == exc.type \notin NotExceptions

\* ValueError and the built-in classes that derive from it
ValueErrorClasses ==
    {"ValueError", "UnicodeError", "UnicodeDecodeError", "UnicodeEncodeError",
     "UnicodeTranslateError"}

\* line 571: "except ValueError" catches ValueError and what derives from it
CaughtAsValueError(exc) == exc.type \in ValueErrorClasses

(***************************************************************************)
(* load_resources, lines 40-104.                                           *)
(***************************************************************************)
\* Python None for resources; c is never read when is_none
NoResources == [is_none |-> TRUE, c |-> NominalContents]
Loaded(c) == [is_none |-> FALSE, c |-> c]

\* a variant that stops at the first file that does not exist
MissingFiles_first(present) ==
    LET all == SelectSeq(required_files, LAMBDA f : f \notin present)
    IN  IF all = <<>> THEN <<>> ELSE <<all[1]>>

\* lines 47-53: the base names of the required files that do not exist, in
\* the order of required_files
MissingFiles(present) == SelectSeq(required_files, LAMBDA f : f \notin present)

\* lines 80 and 96: the f-string error_msg
ScalerErrorMsg(n) ==
    <<"fatal:", "Scaler", "(from", SCALER_PATH, ") expects", NumStr(n),
      "features", "but the code names", NumStr(Len(REQUIRED_REGRESSION_FEATURES)),
      "regression features">> \o REQUIRED_REGRESSION_FEATURES

\* lines 79 and 95: hasattr(scaler, 'n_features_in_') and
\* scaler.n_features_in_ != len(REQUIRED_REGRESSION_FEATURES)
ScalerWidthMismatch(scaler) ==
    scaler.has_n /\ scaler.n # Len(REQUIRED_REGRESSION_FEATURES)

\* lines 69-100: the check that follows the six joblib.load calls.  The
\* result is the error list of the early return, or <<>> for "return resources, None"
CheckRegressionSchema(c) ==
    LET loaded_reg_features == c.feature_names.regression
        truthy == loaded_reg_features.present /\ loaded_reg_features.items # <<>>
        differs == Range(loaded_reg_features.items) # Range(REQUIRED_REGRESSION_FEATURES)
    IN  IF truthy
        THEN IF differs
             THEN IF ScalerWidthMismatch(c.scaler)
                  THEN [errors |-> <<ScalerErrorMsg(c.scaler.n)>>,
                        log |-> <<<<"warning:", "regression", "features differ from the code's list">>,
                                  ScalerErrorMsg(c.scaler.n)>>]
                  ELSE [errors |-> <<>>,
                        log |-> <<<<"warning:", "regression", "features differ from the code's list">>,
                                  <<"regression", "features agree with the code's list">>>>]
             ELSE [errors |-> <<>>,
                   log |-> <<<<"regression", "features agree with the code's list">>>>]
        ELSE IF ScalerWidthMismatch(c.scaler)
             THEN [errors |-> <<ScalerErrorMsg(c.scaler.n)>>,
                   log |-> <<<<"warning:", "regression", "list not found, using the code's list">>,
                             ScalerErrorMsg(c.scaler.n)>>]
             ELSE [errors |-> <<>>,
                   log |-> <<<<"warning:", "regression", "list not found, using the code's list">>>>]

\* lines 40-104.  present: the files that exist; disk: what joblib.load does.
\* loads: the files joblib.load was called on; uncaught: the exception of
\* a joblib.load left the function, which then returns nothing
load_resources(present, disk) ==
    LET missing_files == MissingFiles(present)
    IN  IF missing_files # <<>>
        THEN \* lines 55-57
             [resources |-> NoResources,
              load_error_info |-> [i \in 1..Len(missing_files) |-> <<missing_files[i]>>],
              loads |-> <<>>,
              log |-> [i \in 1..Len(missing_files) |-> <<"error: file not found", missing_files[i]>>],
              uncaught |-> FALSE]
        ELSE IF disk.throw_at > 0 /\ ~CaughtByExcept(disk.exc)
        THEN \* a joblib.load raised what line 101 does not catch
             [resources |-> NoResources,
              load_error_info |-> <<>>,
              loads |-> SubSeq(required_files, 1, disk.throw_at),
              log |-> <<>>,
              uncaught |-> TRUE]
        ELSE IF disk.throw_at > 0
        THEN \* lines 101-104: a joblib.load raised
             [resources |-> NoResources,
              load_error_info |-> << <<"load error:">> \o disk.exc.text >>,
              loads |-> SubSeq(required_files, 1, disk.throw_at),
              log |-> << <<"load error:">> \o disk.exc.text >>,
              uncaught |-> FALSE]
        ELSE IF ~disk.contents.feature_names.is_dict
        THEN \* line 71: .get on a non-dict raises AttributeError, caught at line 101
             [resources |-> NoResources,
              load_error_info |-> << <<"load error:", "object has no attribute", "get">> >>,
              loads |-> required_files,
              log |-> << <<"all resources loaded">>,
                         <<"load error:", "object has no attribute", "get">> >>,
              uncaught |-> FALSE]
        ELSE LET chk == CheckRegressionSchema(disk.contents)
             IN  [resources |-> IF chk.errors = <<>> THEN Loaded(disk.contents) ELSE NoResources,
                  load_error_info |-> chk.errors,
                  loads |-> required_files,
                  log |-> <<<<"all resources loaded">>>> \o chk.log,
                  uncaught |-> FALSE]

(***************************************************************************)
(* Lines 209-241: the content validation of the loaded resources.          *)
(***************************************************************************)
\* lines 216-219
InvalidMappings(mappings) ==
    LET bad == SelectSeq(required_mappings, LAMBDA key : key \in mappings.bad)
    IN  [i \in 1..Len(bad) |-> <<"mapping", bad[i], "(from", "mappings.joblib", ")">>]

\* lines 222-225
InvalidFeatureLists(feature_names_loaded) ==
    LET bad == SelectSeq(required_features_in_file,
                         LAMBDA key : ~feature_names_loaded[key].present
                                      \/ ~feature_names_loaded[key].is_list)
    IN  [i \in 1..Len(bad) |-> <<"feature list", bad[i], "(from", "feature_names.joblib", ")">>]

\* lines 228-234
InvalidRegressionList(feature_names_loaded) ==
    IF feature_names_loaded.regression.present /\ ~feature_names_loaded.regression.is_list
    THEN << <<"feature list", "regression", "(from", "feature_names.joblib", ")", "is not a list">> >>
    ELSE <<>>

\* a variant that does not check the mappings
missing_or_invalid_no_mappings(c) ==
    InvalidFeatureLists(c.feature_names) \o InvalidRegressionList(c.feature_names)

\* lines 212-234: missing_or_invalid; valid_resources is its emptiness
missing_or_invalid(c) ==
    InvalidMappings(c.mappings) \o InvalidFeatureLists(c.feature_names)
        \o InvalidRegressionList(c.feature_names)

valid_resources(c) == missing_or_invalid(c) = <<>>

(***************************************************************************)
(* The request: lines 417-602.                                             *)
(***************************************************************************)
Targets == {"market", "price_level", "regression"}

\* the value the user leaves in each field when it is not "not applicable"
FormValue(f) ==
    CASE f = "orientation" -> 6 [] f = "floor_level" -> 0 [] f = "district" -> 5
      [] f = "age" -> 4 [] f = "total_price" -> 120 [] f = "area" -> 95
      [] f = "build_year" -> 2015 [] f = "floor_count" -> 18 [] f = "rooms" -> 3
      [] f = "halls" -> 2 [] f = "baths" -> 1

\* lines 421-431: all_inputs has the four selectbox keys and the seven
\* numeric keys; a field set to "not applicable" holds None
InputVectors ==
    {[f \in UIFeatures |-> IF f \in A THEN None ELSE Some(FormValue(f))] :
        A \in {S \in SUBSET UIFeatures : Cardinality(S) <= MaxAbsent}}

\* a variant that overlooks None values (only undefined keys count as missing)
IsMissing_keys_only(feat, inputs) == feat \notin DOMAIN inputs

\* lines 460-467: the entry of missing_for_model for one feature
IsMissing(feat, inputs) == feat \notin DOMAIN inputs \/ inputs[feat].isNone

\* a variant that records the internal feature name, not the form's label
MissingEntry_internal_name(feat, inputs) ==
    IF feat \notin DOMAIN inputs THEN <<feat, "(UI undefined)">> ELSE <<feat>>

MissingEntry(feat, inputs) ==
    IF feat \notin DOMAIN inputs
    THEN <<feature_to_label(feat), "(UI undefined)">>
    ELSE <<feature_to_label(feat)>>

\* lines 456-467
missing_for_model(required_feature_list, inputs) ==
    LET miss == SelectSeq(required_feature_list, LAMBDA feat : IsMissing(feat, inputs))
    IN  [i \in 1..Len(miss) |-> MissingEntry(miss[i], inputs)]

\* str(list) of the entries, one after the other
RECURSIVE JoinEntries(_)
JoinEntries(entries) ==
    IF entries = <<>> THEN <<>> ELSE Head(entries) \o JoinEntries(Tail(entries))

\* line 471: print(f"model '{model_key}' insufficient data, missing: {missing_for_model}")
InsufficientLogLine(model_key, missing) ==
    <<"insufficient data for", model_key, "missing:">> \o JoinEntries(missing)

\* a variant that looks at the first required feature only
check_sufficiency_first_only(model_key, required_feature_list, inputs, flags) ==
    LET missing == missing_for_model(SubSeq(required_feature_list, 1, 1), inputs)
    IN  IF missing # <<>>
        THEN [sufficient |-> FALSE,
              flags |-> [flags EXCEPT ![model_key] = TRUE],
              missing |-> missing]
        ELSE [sufficient |-> TRUE, flags |-> flags, missing |-> <<>>]

\* a variant whose verdict also depends on the flags the earlier targets set
check_sufficiency_sticky(model_key, required_feature_list, inputs, flags) ==
    LET missing == missing_for_model(required_feature_list, inputs)
    IN  IF missing # <<>> \/ (\E t \in DOMAIN flags : flags[t])
        THEN [sufficient |-> FALSE,
              flags |-> [flags EXCEPT ![model_key] = TRUE],
              missing |-> missing]
        ELSE [sufficient |-> TRUE, flags |-> flags, missing |-> <<>>]

\* lines 445-474: the returned bool, the updated insufficient_data_flags and
\* the missing labels (which the code prints)
check_sufficiency(model_key, required_feature_list, inputs, flags) ==
    LET missing == missing_for_model(required_feature_list, inputs)
    IN  IF missing # <<>>
        THEN [sufficient |-> FALSE,
              flags |-> [flags EXCEPT ![model_key] = TRUE],
              missing |-> missing]
        ELSE [sufficient |-> TRUE, flags |-> flags, missing |-> <<>>]

Unchecked == [checked |-> FALSE, sufficient |-> FALSE, missing |-> <<>>]
Checked(chk) == [checked |-> TRUE, sufficient |-> chk.sufficient, missing |-> chk.missing]

\* a variant that leaves the columns in the order of the keys of all_inputs
\* (the DataFrame without the [features] selection)
AssembleRow_input_order(required_feature_list, inputs) ==
    LET keys == <<"orientation", "floor_level", "district", "age", "total_price", "area",
                  "build_year", "floor_count", "rooms", "halls", "baths">>
        cols == SelectSeq(keys, LAMBDA f : \E i \in DOMAIN required_feature_list :
                                              required_feature_list[i] = f)
    IN  [i \in 1..Len(cols) |-> inputs[cols[i]]]

\* lines 488-490, 521-523, 562-564: the one-row DataFrame with its columns
\* in the order of the required list
AssembleRow(required_feature_list, inputs) ==
    [i \in 1..Len(required_feature_list) |-> inputs[required_feature_list[i]]]

\* a call of a model or of the scaler
Call(target, op, scaled, row) == [target |-> target, op |-> op, scaled |-> scaled, row |-> row]

\* lines 496 and 530-536: isinstance(raw, (int, np.integer, float))
IsNumeric(raw) == raw.t \in {"int", "float"}

\* int() of a finite float: the integer part, toward zero
Truncated(v) ==
    (IF v.neg THEN -1 ELSE 1) * NatOf(SubSeq(v.digits, 1, Len(v.digits) - v.scale))

\* str(n) of an integer, as code points
IntChars(n) ==
    IF n = 0 THEN <<48>>
    ELSE (IF n < 0 THEN <<45>> ELSE <<>>)
         \o [i \in DOMAIN DigitsOf(IF n < 0 THEN -n ELSE n) |->
                48 + DigitsOf(IF n < 0 THEN -n ELSE n)[i]]

\* a variant that always takes the string form
KeyOf_str_always(raw) ==
    [raised |-> FALSE, exc |-> NoExc,
     key |-> StrKey(IF raw.t = "int" THEN IntChars(raw.n)
                    ELSE IF raw.t = "float" THEN Formatted(raw.v)
                    ELSE raw.s)]

\* lines 496, 531, 535: int(raw) if numeric else str(raw); int() of a float
\* truncates toward zero and raises for nan and for an infinity
KeyOf(raw) ==
    IF raw.t = "int" THEN [raised |-> FALSE, exc |-> NoExc, key |-> IntKey(raw.n)]
    ELSE IF raw.t = "float" /\ raw.v.k = "nan"
    THEN [raised |-> TRUE,
          exc |-> Exc("ValueError", <<"cannot convert float NaN to integer">>),
          key |-> NoKey]
    ELSE IF raw.t = "float" /\ raw.v.k = "inf"
    THEN [raised |-> TRUE,
          exc |-> Exc("OverflowError", <<"cannot convert float infinity to integer">>),
          key |-> NoKey]
    ELSE IF raw.t = "float"
    THEN [raised |-> FALSE, exc |-> NoExc, key |-> IntKey(Truncated(raw.v))]
    ELSE [raised |-> FALSE, exc |-> NoExc, key |-> StrKey(raw.s)]

\* lines 498 and 539: output_map.get(key, f"unknown code ({key})")
LookupLabel(output_map, key) ==
    IF key \in DOMAIN output_map THEN Label(output_map[key]) ELSE UnknownCode(key)

(***************************************************************************)
(* What the run shows: st.error / st.warning / st.success / st.markdown    *)
(* items and the three result panels of display_result (lines 620-632).    *)
(***************************************************************************)
Item(w, tokens) == [w |-> w, title |-> "", body |-> Label(""), tokens |-> tokens]
Panel(title, display_text) == [w |-> "panel", title |-> title, body |-> display_text, tokens |-> <<>>]

\* line 708: the fixed text shown for every entry of error_messages
GenericErrorText == "a problem occurred during the analysis, check the input or contact the administrator"

(***************************************************************************)
(* The three dispatch blocks.  Each yields the new values of the variables *)
(* it assigns; uncaught says that an exception left the block.             *)
(***************************************************************************)
\* model.predict(row)[0]: the stored behaviour of the model object
Predict(model) ==
    IF model.kind = "raise"
    THEN [raised |-> TRUE, exc |-> model.exc, raw |-> model.raw]
    ELSE [raised |-> FALSE, exc |-> NoExc, raw |-> model.raw]

\* lines 486-498: the body of the market try block
MarketTry(c) ==
    LET res == Predict(c.market_model)
        k == KeyOf(res.raw)
    IN  IF res.raised THEN [raised |-> TRUE, exc |-> res.exc, label |-> Label(LabelPending)]
        ELSE IF k.raised THEN [raised |-> TRUE, exc |-> k.exc, label |-> Label(LabelPending)]
        ELSE [raised |-> FALSE, exc |-> NoExc,
              label |-> LookupLabel(c.mappings.market_category, k.key)]

\* lines 478-507
market_dispatch(c, inputs, flags, errors) ==
    LET market_features_needed == c.feature_names.market.items
        chk == check_sufficiency("market", market_features_needed, inputs, flags)
        try == MarketTry(c)
        msg == <<"market model prediction error:">> \o try.exc.text
        call == Call("market", "predict", FALSE, AssembleRow(market_features_needed, inputs))
    IN  IF market_features_needed = <<>>
        THEN [label |-> Label(LabelConfigMissing),
              flags |-> [flags EXCEPT !["market"] = TRUE],
              errors |-> errors, calls |-> <<>>, check |-> Unchecked, uncaught |-> FALSE,
              ui |-> <<Item("warning", <<"no feature list for the model", "market">>)>>,
              log |-> <<>>]
        ELSE IF ~chk.sufficient
        THEN [label |-> Label(LabelInsufficient), flags |-> chk.flags,
              errors |-> errors, calls |-> <<>>, check |-> Checked(chk), uncaught |-> FALSE,
              ui |-> <<>>, log |-> <<InsufficientLogLine("market", chk.missing)>>]
        ELSE IF ~try.raised
        THEN [label |-> try.label, flags |-> chk.flags,
              errors |-> errors, calls |-> <<call>>, check |-> Checked(chk), uncaught |-> FALSE,
              ui |-> <<>>, log |-> <<>>]
        ELSE IF CaughtByExcept(try.exc)
        THEN [label |-> Label(LabelFailed), flags |-> chk.flags,
              errors |-> Append(errors, msg), calls |-> <<call>>, check |-> Checked(chk),
              uncaught |-> FALSE, ui |-> <<>>, log |-> <<msg>>]
        ELSE [label |-> Label(LabelPending), flags |-> chk.flags,
              errors |-> errors, calls |-> <<call>>, check |-> Checked(chk),
              uncaught |-> TRUE, ui |-> <<>>, log |-> <<>>]

\* lines 519-539: the body of the price-level try block
PriceLevelTry(c) ==
    LET res == Predict(c.price_level_model)
        k == KeyOf(res.raw)
    IN  IF res.raised
        THEN [raised |-> TRUE, exc |-> res.exc, label |-> Label(LabelPending), code |-> ErrorCode]
        ELSE IF k.raised
        THEN [raised |-> TRUE, exc |-> k.exc, label |-> Label(LabelPending), code |-> ErrorCode]
        ELSE [raised |-> FALSE, exc |-> NoExc,
              label |-> LookupLabel(c.mappings.above_district_avg, k.key),
              code |-> IF IsNumeric(res.raw) THEN k.key.n ELSE ErrorCode]

\* lines 511-551
price_level_dispatch(c, inputs, flags, errors) ==
    LET price_level_features_needed == c.feature_names.price_level.items
        chk == check_sufficiency("price_level", price_level_features_needed, inputs, flags)
        try == PriceLevelTry(c)
        msg == <<"price level model prediction error:">> \o try.exc.text
        call == Call("price_level", "predict", FALSE,
                     AssembleRow(price_level_features_needed, inputs))
    IN  IF price_level_features_needed = <<>>
        THEN [label |-> Label(LabelConfigMissing), code |-> ErrorCode,
              flags |-> [flags EXCEPT !["price_level"] = TRUE],
              errors |-> errors, calls |-> <<>>, check |-> Unchecked, uncaught |-> FALSE,
              ui |-> <<Item("warning", <<"no feature list for the model", "price_level">>)>>,
              log |-> <<>>]
        ELSE IF ~chk.sufficient
        THEN [label |-> Label(LabelInsufficient), code |-> ErrorCode, flags |-> chk.flags,
              errors |-> errors, calls |-> <<>>, check |-> Checked(chk), uncaught |-> FALSE,
              ui |-> <<>>, log |-> <<InsufficientLogLine("price_level", chk.missing)>>]
        ELSE IF ~try.raised
        THEN [label |-> try.label, code |-> try.code, flags |-> chk.flags,
              errors |-> errors, calls |-> <<call>>, check |-> Checked(chk), uncaught |-> FALSE,
              ui |-> <<>>, log |-> <<>>]
        ELSE IF CaughtByExcept(try.exc)
        THEN [label |-> Label(LabelFailed), code |-> ErrorCode, flags |-> chk.flags,
              errors |-> Append(errors, msg), calls |-> <<call>>, check |-> Checked(chk),
              uncaught |-> FALSE, ui |-> <<>>, log |-> <<msg>>]
        ELSE [label |-> Label(LabelPending), code |-> ErrorCode, flags |-> chk.flags,
              errors |-> errors, calls |-> <<call>>, check |-> Checked(chk),
              uncaught |-> TRUE, ui |-> <<>>, log |-> <<>>]

\* scaler.transform(row) of a fitted scaler: it rejects a row whose width is
\* not the width it was fitted on
Transform(scaler, row) ==
    IF scaler.has_n /\ scaler.n # Len(row)
    THEN [raised |-> TRUE,
          exc |-> Exc("ValueError", <<"X has", NumStr(Len(row)), "features, but StandardScaler is expecting",
                                      NumStr(scaler.n), "features as input.">>)]
    ELSE IF scaler.exc # NoExc
    THEN [raised |-> TRUE, exc |-> scaler.exc]
    ELSE [raised |-> FALSE, exc |-> NoExc]

\* lines 575-584: what the inner "except ValueError as ve" raises
RewrapScalerError(scaler, ve, row) ==
    IF Contains(ve.text, "feature_names mismatch") \/ Contains(ve.text, "number of features")
       \/ Contains(ve.text, "X has")
    THEN Exc("ValueError",
             <<ScalerMismatchMarker, "scaler expects",
               IF scaler.has_n THEN NumStr(scaler.n) ELSE "unknown count",
               "features, but", NumStr(Len(row)), "were provided">>
             \o REQUIRED_REGRESSION_FEATURES
             \o <<"make sure", SCALER_PATH, "was trained on the same features">>)
    ELSE ve

\* the code point of the digit zero of every decimal number system (Unicode
\* 14, the version of Python 3.11); the nine that follow it are its 1 to 9
DecimalZeros ==
    {48, 1632, 1776, 1984, 2406, 2534, 2662, 2790, 2918, 3046, 3174, 3302, 3430, 3558, 3664,
     3792, 3872, 4160, 4240, 6112, 6160, 6470, 6608, 6784, 6800, 6992, 7088, 7232, 7248,
     42528, 43216, 43264, 43472, 43504, 43600, 44016, 65296, 66720, 68912, 69734, 69872,
     69942, 70096, 70384, 70736, 70864, 71248, 71360, 71472, 71904, 72016, 72784, 73040,
     73120, 92768, 92864, 93008, 120782, 120792, 120802, 120812, 120822, 123200, 123632,
     125264, 130032}

\* float(str) first brings the text to ASCII: a code point above 127 becomes
\* a space when it is white space, the ASCII digit when it is a decimal
\* digit, and "?" otherwise
AsciiOf(chars) ==
    [i \in DOMAIN chars |->
        IF chars[i] < 128 THEN chars[i]
        ELSE IF chars[i] \in {133, 160, 5760, 8232, 8233, 8239, 8287, 12288} \cup (8192..8202)
        THEN 32
        ELSE IF \E z \in DecimalZeros : chars[i] \in z..(z + 9)
        THEN 48 + chars[i] - (CHOOSE z \in DecimalZeros : chars[i] \in z..(z + 9))
        ELSE 63]

\* the text without the white space (tab, line feed, vertical tab, form
\* feed, carriage return, space) around it
Strip(chars) ==
    LET inner == {i \in DOMAIN chars : chars[i] \notin {9, 10, 11, 12, 13, 32}}
    IN  IF inner = {} THEN <<>>
        ELSE SubSeq(chars, CHOOSE i \in inner : \A j \in inner : i <= j,
                    CHOOSE i \in inner : \A j \in inner : i >= j)

\* an optional sign and what follows it
Signed(chars) ==
    IF chars # <<>> /\ Head(chars) \in {43, 45}
    THEN [neg |-> Head(chars) = 45, rest |-> Tail(chars)]
    ELSE [neg |-> FALSE, rest |-> chars]

\* the leading run of ASCII digits, as numbers, and what follows it
SplitDigits(chars) ==
    LET n == Cardinality({i \in DOMAIN chars : \A j \in 1..i : chars[j] \in 48..57})
    IN  [digits |-> [i \in 1..n |-> chars[i] - 48], rest |-> SubSeq(chars, n + 1, Len(chars))]

\* the exponent of a literal: none, or e|E [sign] digits to the end of the
\* text; one of more than nine digits counts as 10^9, which is beyond the
\* length of any text
ExponentOf(tail) ==
    LET signed == Signed(Tail(tail))
        run == SplitDigits(signed.rest)
        ds == StripLeadingZeros(run.digits)
    IN  IF tail = <<>> THEN [ok |-> TRUE, value |-> 0]
        ELSE IF Head(tail) \notin {101, 69} \/ run.digits = <<>> \/ run.rest # <<>>
        THEN [ok |-> FALSE, value |-> 0]
        ELSE [ok |-> TRUE,
              value |-> (IF signed.neg THEN -1 ELSE 1)
                            * (IF Len(ds) > 9 THEN 1000000000 ELSE NatOf(ds))]

\* the literal with the integer digits int and the text after them:
\* [. digits] [exponent], with a digit in the mantissa
LiteralFrom(neg, int, frac) ==
    LET exp == ExponentOf(frac.rest)
    IN  IF int \o frac.digits = <<>> \/ ~exp.ok THEN [ok |-> FALSE, value |-> NaN]
        ELSE [ok |-> TRUE,
              value |-> Nearest(neg, StripLeadingZeros(int \o frac.digits),
                                exp.value - Len(frac.digits))]

\* digits [. digits] [e|E [sign] digits], the whole text consumed
DecimalLiteral(neg, body) ==
    LiteralFrom(neg, SplitDigits(body).digits,
                IF SplitDigits(body).rest # <<>> /\ Head(SplitDigits(body).rest) = 46
                THEN SplitDigits(Tail(SplitDigits(body).rest))
                ELSE [digits |-> <<>>, rest |-> SplitDigits(body).rest])

\* line 589: float() of the bytes of a literal: white space around it
\* stripped, underscores dropped (one is allowed between two digits only),
\* then a sign and inf, infinity or nan in any case, or a decimal literal;
\* ok is false where float() raises ValueError
FloatOfBytes(chars) ==
    LET stripped == Strip(chars)
        underscores_valid ==
            \A i \in DOMAIN stripped :
                stripped[i] = 95 =>
                    /\ i > 1 /\ i < Len(stripped)
                    /\ stripped[i - 1] \in 48..57
                    /\ stripped[i + 1] \in 48..57
        signed == Signed(SelectSeq(stripped, LAMBDA ch : ch # 95))
        word == [i \in DOMAIN signed.rest |->
                    IF signed.rest[i] \in 65..90 THEN signed.rest[i] + 32 ELSE signed.rest[i]]
    IN  IF ~underscores_valid THEN [ok |-> FALSE, value |-> NaN]
        ELSE IF word \in {<<105, 110, 102>>, <<105, 110, 102, 105, 110, 105, 116, 121>>}
        THEN [ok |-> TRUE, value |-> Infinity(signed.neg)]
        ELSE IF word = <<110, 97, 110>> THEN [ok |-> TRUE, value |-> NaN]
        ELSE DecimalLiteral(signed.neg, signed.rest)

\* the result of float(): the value, or the exception it raised
Converted(v) == [ok |-> TRUE, exc |-> NoExc, value |-> v]
NotConverted(exc) == [ok |-> FALSE, exc |-> exc, value |-> NaN]

\* float() of a text: the value of its literal, or a ValueError whose
\* message quotes the argument as shown
FloatOfLiteral(parsed, shown) ==
    IF parsed.ok THEN Converted(parsed.value)
    ELSE NotConverted(Exc("ValueError",
                          <<"could not convert string to float:">> \o TextTokens(shown)))

\* float() of a text whose literal is the bytes chars; shown is how the
\* message of the ValueError quotes the argument
FloatOfText(chars, shown) == FloatOfLiteral(FloatOfBytes(chars), shown)

\* line 589: float(raw) of a prediction: a number as it is, __float__ or
\* __index__ of an object that has one, a str (brought to ASCII), a bytes
\* object or a buffer parsed, TypeError for any other object
FloatOf(raw) ==
    IF raw.t = "int"
    THEN Converted(Nearest(raw.n < 0, DigitsOf(IF raw.n < 0 THEN -raw.n ELSE raw.n), 0))
    ELSE IF raw.t \in {"float", "real"} THEN Converted(raw.v)
    ELSE IF raw.t = "str" THEN FloatOfText(AsciiOf(raw.chars), StrRepr(raw.chars))
    ELSE IF raw.t \in {"bytes", "buffer"} THEN FloatOfText(raw.chars, raw.s)
    ELSE NotConverted(Exc("TypeError",
                          <<"float() argument must be a string or a real number, not">>
                          \o TextTokens(<<39>> \o raw.cls \o <<39>>)))

\* the int 0 that max(0, x) gives for an x that is not greater
Zero == Fin(FALSE, <<>>, 0)

\* x > 0 of a float
IsPositive(v) == v.k # "nan" /\ ~v.neg /\ (v.k = "inf" \/ v.digits # <<>>)

\* a variant without the clamp: the float alone
ClampPrice_unclamped(f) == f

\* line 589: max(0, f) of the float f: f when it is greater than 0, else the
\* 0 (also for nan, which no comparison finds greater)
ClampPrice(f) == IF IsPositive(f) THEN f ELSE Zero

\* line 589: unit_price_pred = max(0, f) for the result f of float(); the
\* exception of a float() that raised leaves the try block
StorePrice(f) ==
    IF f.ok
    THEN [raised |-> FALSE, predicted |-> TRUE, value |-> ClampPrice(f.value), exc |-> NoExc,
          log |-> <<>>]
    ELSE [raised |-> TRUE, predicted |-> TRUE, value |-> ErrorPrice, exc |-> f.exc,
          log |-> <<>>]

\* lines 560-590: the body of the regression try block; log holds the
\* line that the inner except clause prints (line 573)
RegressionTry(c, row) ==
    LET tr == Transform(c.scaler, row)
        res == Predict(c.regression_model)
    IN  IF tr.raised
        THEN IF CaughtAsValueError(tr.exc)
             THEN [raised |-> TRUE, predicted |-> FALSE, value |-> ErrorPrice,
                   exc |-> RewrapScalerError(c.scaler, tr.exc, row),
                   log |-> << <<"scaler error:">> \o tr.exc.text >>]
             ELSE [raised |-> TRUE, predicted |-> FALSE, value |-> ErrorPrice,
                   exc |-> tr.exc, log |-> <<>>]
        ELSE IF res.raised
        THEN [raised |-> TRUE, predicted |-> TRUE, value |-> ErrorPrice, exc |-> res.exc,
              log |-> <<>>]
        ELSE StorePrice(FloatOf(res.raw))

\* a variant that takes the list from the 'regression' entry of the loaded
\* schema when the entry is there, as the two classifiers do
regression_dispatch_from_schema(c, inputs, flags, errors) ==
    LET regression_features_needed ==
            IF c.feature_names.regression.present /\ c.feature_names.regression.items # <<>>
            THEN c.feature_names.regression.items
            ELSE REQUIRED_REGRESSION_FEATURES
        chk == check_sufficiency("regression", regression_features_needed, inputs, flags)
        row == AssembleRow(regression_features_needed, inputs)
        attempted(try) ==
            LET msg == <<"unit price model prediction error:">> \o try.exc.text
                calls == <<Call("regression", "transform", FALSE, row)>>
                         \o (IF try.predicted
                             THEN <<Call("regression", "predict", TRUE, row)>> ELSE <<>>)
            IN  IF ~try.raised
                THEN [value |-> try.value, flags |-> chk.flags,
                      errors |-> errors, calls |-> calls, check |-> Checked(chk),
                      uncaught |-> FALSE, log |-> <<>>]
                ELSE IF CaughtByExcept(try.exc)
                THEN [value |-> ErrorPrice, flags |-> chk.flags,
                      errors |-> Append(errors, msg), calls |-> calls, check |-> Checked(chk),
                      uncaught |-> FALSE, log |-> try.log \o <<msg>>]
                ELSE [value |-> ErrorPrice, flags |-> chk.flags,
                      errors |-> errors, calls |-> calls, check |-> Checked(chk),
                      uncaught |-> TRUE, log |-> try.log]
    IN  IF ~chk.sufficient
        THEN [value |-> ErrorPrice, flags |-> [chk.flags EXCEPT !["regression"] = TRUE],
              errors |-> errors, calls |-> <<>>, check |-> Checked(chk), uncaught |-> FALSE,
              log |-> <<InsufficientLogLine("regression", chk.missing)>>]
        ELSE attempted(RegressionTry(c, row))

\* lines 555-602
regression_dispatch(c, inputs, flags, errors) ==
    LET regression_features_needed == REQUIRED_REGRESSION_FEATURES
        chk == check_sufficiency("regression", regression_features_needed, inputs, flags)
        row == AssembleRow(regression_features_needed, inputs)
        attempted(try) ==
            LET msg == <<"unit price model prediction error:">> \o try.exc.text
                calls == <<Call("regression", "transform", FALSE, row)>>
                         \o (IF try.predicted
                             THEN <<Call("regression", "predict", TRUE, row)>> ELSE <<>>)
            IN  IF ~try.raised
                THEN [value |-> try.value, flags |-> chk.flags,
                      errors |-> errors, calls |-> calls, check |-> Checked(chk),
                      uncaught |-> FALSE, log |-> <<>>]
                ELSE IF CaughtByExcept(try.exc)
                THEN [value |-> ErrorPrice, flags |-> chk.flags,
                      errors |-> Append(errors, msg), calls |-> calls, check |-> Checked(chk),
                      uncaught |-> FALSE, log |-> try.log \o <<msg>>]
                ELSE [value |-> ErrorPrice, flags |-> chk.flags,
                      errors |-> errors, calls |-> calls, check |-> Checked(chk),
                      uncaught |-> TRUE, log |-> try.log]
    IN  IF ~chk.sufficient
        THEN [value |-> ErrorPrice, flags |-> [chk.flags EXCEPT !["regression"] = TRUE],
              errors |-> errors, calls |-> <<>>, check |-> Checked(chk), uncaught |-> FALSE,
              log |-> <<InsufficientLogLine("regression", chk.missing)>>]
        ELSE attempted(RegressionTry(c, row))

(***************************************************************************)
(* The result display: lines 604-735.                                      *)
(***************************************************************************)
\* lines 638-651: display_text of the market panel
MarketDisplayText(label, flags) ==
    IF label = Label(LabelConfigMissing) THEN Label("feature_config_missing")
    ELSE IF flags["market"] \/ label = Label(LabelInsufficient) THEN Label(LabelInsufficient)
    ELSE IF label = Label(LabelFailed) THEN Label(LabelFailed)
    ELSE label

\* lines 659-678: display_text of the price-level panel
PriceLevelDisplayText(label, code, flags) ==
    IF label = Label(LabelConfigMissing) THEN Label("feature_config_missing")
    ELSE IF flags["price_level"] \/ label = Label(LabelInsufficient) THEN Label(LabelInsufficient)
    ELSE IF label = Label(LabelFailed) \/ code = ErrorCode THEN Label("prediction_failed_or_unknown")
    ELSE IF code = 1 THEN label
    ELSE IF code = 0 THEN label
    ELSE Label("unknown_state")

\* line 695: f"{unit_price_pred:,.0f} yuan/m2"
PriceText(value) == [text |-> "yuan/m2", key |-> StrKey(Formatted(value))]

\* a variant that tests the sentinel before the insufficiency flag
UnitPriceDisplayText_value_first(value, flags) ==
    IF value = ErrorPrice THEN Label("prediction_failed_or_insufficient")
    ELSE IF flags["regression"] THEN Label(LabelInsufficient)
    ELSE PriceText(value)

\* lines 687-696: display_text of the unit-price panel
UnitPriceDisplayText(value, flags) ==
    IF flags["regression"] THEN Label(LabelInsufficient)
    ELSE IF value = ErrorPrice THEN Label("prediction_failed_or_insufficient")
    ELSE PriceText(value)

\* a variant that shows the message itself
ErrorItems_raw(i, msg) == <<Item("markdown", <<NumStr(i)>> \o msg)>>

\* lines 706-713: what is shown for the i-th entry of error_messages
ErrorItems(i, msg) ==
    <<Item("markdown", <<NumStr(i), GenericErrorText>>)>>
    \o (IF Contains(msg, ScalerMismatchMarker)
        THEN <<Item("warning", <<"hint (error", NumStr(i), "):",
                                 "the regression features do not match the loaded scaler",
                                 SCALER_PATH>>)>>
        ELSE <<>>)

\* lines 702-713
ErrorBlock(errors) ==
    LET shown[i \in 0..Len(errors)] ==
            IF i = 0 THEN <<>> ELSE shown[i - 1] \o ErrorItems(i, errors[i])
    IN  IF errors = <<>> THEN <<>>
        ELSE <<Item("error", <<"runtime errors during execution:">>)>> \o shown[Len(errors)]

\* lines 706-710: print(f"Detailed Error {i+1}: {msg}")
ErrorLog(errors) ==
    [i \in 1..Len(errors) |-> <<"Detailed Error", NumStr(i)>> \o errors[i]]

\* line 716
has_insufficient_data(flags) == \E t \in Targets : flags[t]

\* line 718
has_errors(errors, m_label, p_label, value) ==
    errors # <<>> \/ m_label = Label(LabelFailed) \/ p_label = Label(LabelFailed)
        \/ value = ErrorPrice

\* lines 722-735: the closing banner
Summary(errors, m_label, p_label, value, flags) ==
    IF ~has_insufficient_data(flags) /\ ~has_errors(errors, m_label, p_label, value)
       /\ m_label # Label(LabelConfigMissing) /\ p_label # Label(LabelConfigMissing)
    THEN <<Item("success", <<"all predictions complete">>)>>
    ELSE IF has_insufficient_data(flags) \/ m_label = Label(LabelConfigMissing)
            \/ p_label = Label(LabelConfigMissing)
    THEN <<Item("warning", <<"some predictions not completed: insufficient data or configuration missing">>)>>
    ELSE IF has_errors(errors, m_label, p_label, value) /\ errors = <<>>
    THEN <<Item("error", <<"some predictions failed">>)>>
    ELSE <<>>

\* lines 604-735
RenderedResults(errors, m_label, p_label, p_code, value, flags) ==
    << Panel("market_segment", MarketDisplayText(m_label, flags)),
       Panel("price_level", PriceLevelDisplayText(p_label, p_code, flags)),
       Panel("unit_price", UnitPriceDisplayText(value, flags)) >>
    \o ErrorBlock(errors)
    \o Summary(errors, m_label, p_label, value, flags)

\* lines 171-198: what a failed load shows
LoadFailureItems(errors) ==
    LET shown[i \in 0..Len(errors)] ==
            IF i = 0 THEN <<>>
            ELSE shown[i - 1] \o <<Item("markdown", errors[i])>>
                 \o (IF Contains(errors[i], "Scaler") /\ Contains(errors[i], "features")
                     THEN <<Item("info", <<"hint: retrain the scaler", SCALER_PATH>>)>>
                     ELSE <<>>)
    IN  <<Item("error", <<"application initialisation failed">>)>>
        \o (IF errors # <<>>
            THEN <<Item("warning", <<"cannot load the resource files">>)>> \o shown[Len(errors)]
            ELSE <<Item("warning", <<"one or more resource files not found">>)>>)
        \o <<Item("markdown", <<"check the joblib files">>)>>

\* lines 237-241: what a failed validation shows
InvalidResourceItems(items) ==
    <<Item("error", <<"resource content incomplete or malformed">>)>>
    \o [i \in 1..Len(items) |-> Item("markdown", items[i])]

(***************************************************************************)
(* The state machine.  A script run goes start -> loaded -> sidebar ->     *)
(* idle, or through the three dispatch blocks when the button was          *)
(* pressed, or ends at st.stop().  Rerun is Streamlit running the script   *)
(* again in the same process.                                              *)
(***************************************************************************)
\* lines 436-442 and 476-602: the values a request leaves in its result variables
Outcome(m_label, p_label, p_code, value, flags, errors) ==
    [market_pred_label |-> m_label, price_level_pred_label |-> p_label,
     price_level_pred_code |-> p_code, unit_price_pred |-> value,
     insufficient_data_flags |-> flags, error_messages |-> errors]

\* no fully populated request has been made in this process yet
NoRequest ==
    [made |-> FALSE,
     outcome |-> Outcome(Label(LabelPending), Label(LabelPending), ErrorCode, ErrorPrice,
                         [t \in Targets |-> FALSE], <<>>)]

\* what the run that ends leaves for the comparison with the next request:
\* its outcome when it rendered a request with every field set, nothing
\* when it rendered another request, and what was there when it made none
Remembered(position, checks, inputs, outcome, previous) ==
    IF position = "idle" /\ checks["regression"].checked
    THEN IF \A f \in DOMAIN inputs : ~inputs[f].isNone
         THEN [made |-> TRUE, outcome |-> outcome]
         ELSE NoRequest
    ELSE previous

\* what a new request is compared with: the remembered outcome when the
\* request has the same, fully populated, vector
Compared(inputs, previous) ==
    IF \A f \in DOMAIN inputs : ~inputs[f].isNone THEN previous ELSE NoRequest

EmptyCache == [filled |-> FALSE, resources |-> NoResources, load_error_info |-> <<>>]

NoInputs == [f \in UIFeatures |-> None]
NoFlags == [t \in Targets |-> FALSE]
NoChecks == [t \in Targets |-> Unchecked]

\* the module-level names before line 107 runs, and lines 436-442
FreshRun ==
    /\ resources = NoResources
    /\ load_error_info = <<>>
    /\ widgets_created = FALSE
    /\ all_inputs = NoInputs
    /\ market_pred_label = Label(LabelPending)
    /\ price_level_pred_label = Label(LabelPending)
    /\ price_level_pred_code = ErrorCode
    /\ unit_price_pred = ErrorPrice
    /\ error_messages = <<>>
    /\ insufficient_data_flags = NoFlags
    /\ sufficiency = NoChecks
    /\ invoked = <<>>
    /\ ui = <<>>
    /\ log = <<>>

Init ==
    /\ files_present \in SUBSET Range(required_files)
    /\ cache = EmptyCache
    /\ loads_attempted = <<>>
    /\ disk_read = NothingRead
    /\ load_log = <<>>
    /\ pc = "start"
    /\ previous_request = NoRequest
    /\ FreshRun

\* what outlives a script run
process_vars == <<files_present, cache, loads_attempted, disk_read, load_log>>

request_vars == <<all_inputs, market_pred_label, price_level_pred_label,
                  price_level_pred_code, unit_price_pred, error_messages,
                  insufficient_data_flags, sufficiency, invoked>>

\* a variant without the memo (load_resources not decorated): the body
\* runs in every script run
LoadResources_every_run ==
    /\ pc = "start"
    /\ \E disk \in (IF MissingFiles(files_present) # <<>> THEN {NothingRead} ELSE DiskOutcomes) :
         LET r == load_resources(files_present, disk)
         IN  /\ IF r.uncaught
                THEN /\ cache' = cache
                     /\ resources' = resources
                     /\ load_error_info' = load_error_info
                     /\ pc' = "load_crashed"
                ELSE /\ cache' = [filled |-> TRUE, resources |-> r.resources,
                                  load_error_info |-> r.load_error_info]
                     /\ resources' = r.resources
                     /\ load_error_info' = r.load_error_info
                     /\ pc' = "loaded"
             /\ loads_attempted' = r.loads
             /\ disk_read' = disk
             /\ load_log' = r.log
    /\ UNCHANGED <<files_present, widgets_created, request_vars, ui, log, previous_request>>

\* line 107 on a cache miss: the body of load_resources runs.  A result
\* that it returns is stored; an exception that leaves it ends the script
\* run with nothing stored, and the next run finds the cache empty
LoadResources ==
    /\ pc = "start"
    /\ ~cache.filled
    /\ \E disk \in (IF MissingFiles(files_present) # <<>> THEN {NothingRead} ELSE DiskOutcomes) :
         LET r == load_resources(files_present, disk)
         IN  /\ IF r.uncaught
                THEN /\ cache' = cache
                     /\ resources' = resources
                     /\ load_error_info' = load_error_info
                     /\ pc' = "load_crashed"
                ELSE /\ cache' = [filled |-> TRUE, resources |-> r.resources,
                                  load_error_info |-> r.load_error_info]
                     /\ resources' = r.resources
                     /\ load_error_info' = r.load_error_info
                     /\ pc' = "loaded"
             /\ loads_attempted' = r.loads
             /\ disk_read' = disk
             /\ load_log' = r.log
    /\ UNCHANGED <<files_present, widgets_created, request_vars, ui, log, previous_request>>

\* line 107 on a cache hit: st.cache_resource returns the stored result
UseCachedResources ==
    /\ pc = "start"
    /\ cache.filled
    /\ resources' = cache.resources
    /\ load_error_info' = cache.load_error_info
    /\ pc' = "loaded"
    /\ UNCHANGED <<process_vars, widgets_created, request_vars, ui, log, previous_request>>

\* lines 171-198
HaltOnLoadFailure ==
    /\ pc = "loaded"
    /\ resources.is_none
    /\ ui' = ui \o LoadFailureItems(load_error_info)
    /\ pc' = "stopped"
    /\ UNCHANGED <<process_vars, resources,
                   load_error_info, widgets_created, request_vars, log, previous_request>>

\* lines 202-241
ValidateResources ==
    /\ pc = "loaded"
    /\ ~resources.is_none
    /\ IF valid_resources(resources.c)
       THEN pc' = "sidebar" /\ ui' = ui
       ELSE pc' = "stopped" /\ ui' = ui \o InvalidResourceItems(missing_or_invalid(resources.c))
    /\ UNCHANGED <<process_vars, resources,
                   load_error_info, widgets_created, request_vars, log, previous_request>>

\* lines 244-417 when the button was not pressed in this run
SidebarOnly ==
    /\ pc = "sidebar"
    /\ widgets_created' = TRUE
    /\ pc' = "idle"
    /\ UNCHANGED <<process_vars, resources,
                   load_error_info, request_vars, ui, log, previous_request>>

\* lines 244-442 when the button was pressed: the form values become
\* all_inputs and the result variables are initialised
PressPredict ==
    /\ pc = "sidebar"
    /\ widgets_created' = TRUE
    /\ \E inputs \in InputVectors :
          /\ all_inputs' = inputs
          /\ previous_request' = Compared(inputs, previous_request)
    /\ market_pred_label' = Label(LabelPending)
    /\ price_level_pred_label' = Label(LabelPending)
    /\ price_level_pred_code' = ErrorCode
    /\ unit_price_pred' = ErrorPrice
    /\ error_messages' = <<>>
    /\ insufficient_data_flags' = NoFlags
    /\ pc' = "market"
    /\ UNCHANGED <<process_vars, resources,
                   load_error_info, sufficiency, invoked, ui, log>>

\* a variant that takes the label out of the cached mapping (dict.pop in
\* place of dict.get): the object st.cache_resource returns is shared by
\* every run of the process
MarketDispatch_pops_label ==
    /\ pc = "market"
    /\ LET d == market_dispatch(resources.c, all_inputs, insufficient_data_flags, error_messages)
           k == KeyOf(resources.c.market_model.raw)
           map == resources.c.mappings.market_category
           popped == IF d.calls # <<>> /\ ~k.raised
                     THEN [x \in DOMAIN map \ {k.key} |-> map[x]]
                     ELSE map
           c2 == [resources.c EXCEPT !.mappings.market_category = popped]
       IN  /\ market_pred_label' = d.label
           /\ insufficient_data_flags' = d.flags
           /\ error_messages' = d.errors
           /\ sufficiency' = [sufficiency EXCEPT !["market"] = d.check]
           /\ invoked' = invoked \o d.calls
           /\ ui' = ui \o d.ui
           /\ log' = log \o d.log
           /\ pc' = IF d.uncaught THEN "crashed" ELSE "price_level"
           /\ resources' = Loaded(c2)
           /\ cache' = [cache EXCEPT !.resources = Loaded(c2)]
    /\ UNCHANGED <<files_present, loads_attempted, disk_read, load_log,
                   load_error_info, widgets_created, all_inputs, price_level_pred_label,
                   price_level_pred_code, unit_price_pred, previous_request>>

\* lines 476-507
MarketDispatch ==
    /\ pc = "market"
    /\ LET d == market_dispatch(resources.c, all_inputs, insufficient_data_flags, error_messages)
       IN  /\ market_pred_label' = d.label
           /\ insufficient_data_flags' = d.flags
           /\ error_messages' = d.errors
           /\ sufficiency' = [sufficiency EXCEPT !["market"] = d.check]
           /\ invoked' = invoked \o d.calls
           /\ ui' = ui \o d.ui
           /\ log' = log \o d.log
           /\ pc' = IF d.uncaught THEN "crashed" ELSE "price_level"
    /\ UNCHANGED <<process_vars, resources,
                   load_error_info, widgets_created, all_inputs, price_level_pred_label,
                   price_level_pred_code, unit_price_pred, previous_request>>

\* lines 509-551
PriceLevelDispatch ==
    /\ pc = "price_level"
    /\ LET d == price_level_dispatch(resources.c, all_inputs, insufficient_data_flags,
                                     error_messages)
       IN  /\ price_level_pred_label' = d.label
           /\ price_level_pred_code' = d.code
           /\ insufficient_data_flags' = d.flags
           /\ error_messages' = d.errors
           /\ sufficiency' = [sufficiency EXCEPT !["price_level"] = d.check]
           /\ invoked' = invoked \o d.calls
           /\ ui' = ui \o d.ui
           /\ log' = log \o d.log
           /\ pc' = IF d.uncaught THEN "crashed" ELSE "regression"
    /\ UNCHANGED <<process_vars, resources,
                   load_error_info, widgets_created, all_inputs, market_pred_label,
                   unit_price_pred, previous_request>>

\* lines 553-602
RegressionDispatch ==
    /\ pc = "regression"
    /\ LET d == regression_dispatch(resources.c, all_inputs, insufficient_data_flags,
                                    error_messages)
       IN  /\ unit_price_pred' = d.value
           /\ insufficient_data_flags' = d.flags
           /\ error_messages' = d.errors
           /\ sufficiency' = [sufficiency EXCEPT !["regression"] = d.check]
           /\ invoked' = invoked \o d.calls
           /\ log' = log \o d.log
           /\ pc' = IF d.uncaught THEN "crashed" ELSE "render"
    /\ UNCHANGED <<process_vars, resources,
                   load_error_info, widgets_created, all_inputs, market_pred_label,
                   price_level_pred_label, price_level_pred_code, ui, previous_request>>

\* lines 604-735
RenderResults ==
    /\ pc = "render"
    /\ ui' = ui \o RenderedResults(error_messages, market_pred_label, price_level_pred_label,
                                   price_level_pred_code, unit_price_pred,
                                   insufficient_data_flags)
    /\ log' = log \o ErrorLog(error_messages)
    /\ pc' = "idle"
    /\ UNCHANGED <<process_vars, resources,
                   load_error_info, widgets_created, request_vars, previous_request>>

\* Streamlit runs the script again (a widget interaction or a page reload):
\* every name of the script is rebound, the cache of load_resources stays
Rerun ==
    /\ pc \in {"idle", "stopped", "crashed", "load_crashed"}
    /\ pc' = "start"
    /\ resources' = NoResources
    /\ load_error_info' = <<>>
    /\ widgets_created' = FALSE
    /\ all_inputs' = NoInputs
    /\ market_pred_label' = Label(LabelPending)
    /\ price_level_pred_label' = Label(LabelPending)
    /\ price_level_pred_code' = ErrorCode
    /\ unit_price_pred' = ErrorPrice
    /\ error_messages' = <<>>
    /\ insufficient_data_flags' = NoFlags
    /\ sufficiency' = NoChecks
    /\ invoked' = <<>>
    /\ ui' = <<>>
    /\ log' = <<>>
    /\ previous_request' =
          Remembered(pc, sufficiency, all_inputs,
                     Outcome(market_pred_label, price_level_pred_label, price_level_pred_code,
                             unit_price_pred, insufficient_data_flags, error_messages),
                     previous_request)
    /\ UNCHANGED process_vars

Next ==
    \/ LoadResources
    \/ UseCachedResources
    \/ HaltOnLoadFailure
    \/ ValidateResources
    \/ SidebarOnly
    \/ PressPredict
    \/ MarketDispatch
    \/ PriceLevelDispatch
    \/ RegressionDispatch
    \/ RenderResults
    \/ Rerun

Spec == Init /\ [][Next]_vars

TypeSanity ==
    /\ pc \in {"start", "loaded", "sidebar", "idle", "stopped", "market", "price_level",
               "regression", "render", "crashed", "load_crashed"}
    /\ disk_read \in DiskOutcomes \cup {NothingRead}
    /\ cache.filled \/ cache = EmptyCache

(***************************************************************************)
(* Vocabulary of the properties.                                           *)
(***************************************************************************)
\* the required-feature list the request uses for a target (lines 478, 511, 555)
RequiredList(t) ==
    CASE t = "market" -> resources.c.feature_names.market.items
      [] t = "price_level" -> resources.c.feature_names.price_level.items
      [] OTHER -> REQUIRED_REGRESSION_FEATURES

\* every name of the list is a key of the request's vector with a value that is not None
AllPresent(R) == \A i \in DOMAIN R : R[i] \in DOMAIN all_inputs /\ ~all_inputs[R[i]].isNone

\* the three dispatch blocks of a request have run
Dispatched == pc = "render" \/ (pc = "idle" /\ sufficiency["regression"].checked)

\* the results of a request are on the page
Rendered == pc = "idle" /\ sufficiency["regression"].checked

\* the model (or, for regression, the scaler) of target t was called in this run
Attempted(t) == \E i \in DOMAIN invoked : invoked[i].target = t

\* the first token of the error message a failed target appends
ErrorPrefix(t) ==
    CASE t = "market" -> "market model prediction error:"
      [] t = "price_level" -> "price level model prediction error:"
      [] OTHER -> "unit price model prediction error:"

ErrorsOf(t) == {i \in DOMAIN error_messages : error_messages[i][1] = ErrorPrefix(t)}

PanelShows(title, body) ==
    \E i \in DOMAIN ui : ui[i].w = "panel" /\ ui[i].title = title /\ ui[i].body = body

\* the loaded model of target t
ModelOf(t) ==
    CASE t = "market" -> resources.c.market_model
      [] t = "price_level" -> resources.c.price_level_model
      [] OTHER -> resources.c.regression_model

\* the output mapping of a classifier target
MappingOf(t) ==
    IF t = "market" THEN resources.c.mappings.market_category
    ELSE resources.c.mappings.above_district_avg

\* predict of the model of target t raises
PredictRaises(t) == ModelOf(t).kind = "raise"

\* scaler.transform raises for the eight-column row of the request: the
\* scaler was fitted on another width, or it rejects the row
ScalerRaises ==
    \/ resources.c.scaler.has_n /\ resources.c.scaler.n # Len(REQUIRED_REGRESSION_FEATURES)
    \/ resources.c.scaler.exc # NoExc

\* the conversion of the value predict returned raises: int() of a float
\* that is nan or an infinity (lines 496, 531), float() of a value it does
\* not convert (line 589)
ConversionRaises(t) ==
    /\ ~PredictRaises(t)
    /\ IF t = "regression" THEN ~FloatOf(ModelOf(t).raw).ok
       ELSE ModelOf(t).raw.t = "float" /\ ModelOf(t).raw.v.k \in {"nan", "inf"}

\* a statement of the try block of target t raises
TryRaises(t) == (t = "regression" /\ ScalerRaises) \/ PredictRaises(t) \/ ConversionRaises(t)

\* the exception that leaves the try block of target t is of a class that
\* does not derive from Exception
RaisesNonException(t) ==
    IF t = "regression" /\ ScalerRaises
    THEN /\ ~(resources.c.scaler.has_n
              /\ resources.c.scaler.n # Len(REQUIRED_REGRESSION_FEATURES))
         /\ resources.c.scaler.exc.type \in NotExceptions
    ELSE PredictRaises(t) /\ ModelOf(t).exc.type \in NotExceptions

\* the key a raw prediction is coerced to: the integer when it is numeric
\* (a float is truncated), else its string form
DecodedKey(raw) ==
    IF raw.t = "int" THEN IntKey(raw.n)
    ELSE IF raw.t = "float" THEN IntKey(Truncated(raw.v))
    ELSE StrKey(raw.s)

\* the label of a key: the mapping's entry, or the default "unknown code (key)"
DecodedLabel(map, raw) ==
    IF DecodedKey(raw) \in DOMAIN map
    THEN [text |-> map[DecodedKey(raw)], key |-> NoKey]
    ELSE [text |-> "unknown_code", key |-> DecodedKey(raw)]

\* target t ended as Success: no insufficiency flag and no error entry, the
\* result variables hold the decoded label (and code) or a price that is
\* not negative, and the panel of t presents that label or price
Succeeded(t) ==
    /\ ~insufficient_data_flags[t]
    /\ ErrorsOf(t) = {}
    /\ ~ConversionRaises(t)
    /\ t = "market" =>
          /\ market_pred_label = DecodedLabel(MappingOf(t), ModelOf(t).raw)
          /\ Rendered => PanelShows("market_segment", market_pred_label)
    /\ t = "price_level" =>
          /\ price_level_pred_label = DecodedLabel(MappingOf(t), ModelOf(t).raw)
          /\ IsNumeric(ModelOf(t).raw) /\ price_level_pred_code = DecodedKey(ModelOf(t).raw).n
          /\ Rendered => PanelShows("price_level", price_level_pred_label)
    /\ t = "regression" =>
          /\ unit_price_pred # ErrorPrice /\ ~unit_price_pred.neg
          /\ Rendered => PanelShows("unit_price", PriceText(unit_price_pred))

(***************************************************************************)
(* C1: check_sufficiency returns True exactly when every name of the       *)
(* required list is a key of the feature vector with a value that is not   *)
(* None; one missing or None name makes it return False.                   *)
(***************************************************************************)
C1_SufficientIffAllPresent ==
    \A t \in Targets :
        sufficiency[t].checked => (sufficiency[t].sufficient <=> AllPresent(RequiredList(t)))

\* one check failed on a name the form does not define, another on a None
\* value, and the third succeeded
C1_Witness ==
    /\ sufficiency["market"].checked /\ ~sufficiency["market"].sufficient
    /\ UndefinedFeature \in Range(RequiredList("market"))
    /\ AllPresent(SelectSeq(RequiredList("market"), LAMBDA f : f # UndefinedFeature))
    /\ sufficiency["price_level"].checked /\ ~sufficiency["price_level"].sufficient
    /\ all_inputs["total_price"].isNone
    /\ sufficiency["regression"].checked /\ sufficiency["regression"].sufficient

(***************************************************************************)
(* C2: a model's predict and the scaler's transform are called only with   *)
(* every required feature of that target present and not None; no row      *)
(* handed to them holds a None.                                            *)
(***************************************************************************)
C2_PredictOnlyWhenSufficient ==
    \A i \in DOMAIN invoked :
        /\ AllPresent(RequiredList(invoked[i].target))
        /\ \A j \in DOMAIN invoked[i].row : ~invoked[i].row[j].isNone
        /\ Len(invoked[i].row) = Len(RequiredList(invoked[i].target))

\* a request with a None field in which one model was called and another was not
C2_Witness ==
    /\ Dispatched
    /\ \E f \in UIFeatures : all_inputs[f].isNone
    /\ Attempted("market")
    /\ ~Attempted("regression")
    /\ RequiredList("price_level") # <<>>

(***************************************************************************)
(* C3: when a feature of REQUIRED_REGRESSION_FEATURES is absent from the   *)
(* request, the unit-price outcome is InsufficientData: the regression     *)
(* flag is set, unit_price_pred stays -1.0 and the panel shows the         *)
(* insufficient-data text, never a price.                                  *)
(***************************************************************************)
C3_AbsentRegressionFeatureIsInsufficient ==
    (Dispatched /\ \E i \in DOMAIN REQUIRED_REGRESSION_FEATURES :
                        all_inputs[REQUIRED_REGRESSION_FEATURES[i]].isNone)
    => /\ insufficient_data_flags["regression"]
       /\ unit_price_pred = ErrorPrice
       /\ ~Attempted("regression")
       /\ Rendered => /\ PanelShows("unit_price", Label(LabelInsufficient))
                      /\ \A i \in DOMAIN ui : ui[i].w = "panel" => ui[i].body.text # "yuan/m2"

\* the results are shown for a request without the number of baths, which
\* only the unit-price target needs
C3_Witness ==
    /\ Rendered
    /\ all_inputs["baths"].isNone
    /\ PanelShows("unit_price", Label(LabelInsufficient))
    /\ Attempted("market")


C5_Original_EveryExceptionCaught ==
    /\ pc # "crashed"
    /\ Dispatched =>
         /\ \A t \in Targets :
              /\ (Attempted(t) /\ TryRaises(t)) =>
                    /\ Cardinality(ErrorsOf(t)) = 1
                    /\ t = "market" => market_pred_label = Label(LabelFailed)
                    /\ t = "price_level" => /\ price_level_pred_label = Label(LabelFailed)
                                            /\ price_level_pred_code = ErrorCode
                    /\ t = "regression" => unit_price_pred = ErrorPrice
              /\ ~(Attempted(t) /\ TryRaises(t)) => ErrorsOf(t) = {}
         /\ Len(error_messages) = Cardinality({t \in Targets : Attempted(t) /\ TryRaises(t)})
    /\ Rendered => \A title \in {"market_segment", "price_level", "unit_price"} :
                      \E i \in DOMAIN ui : ui[i].w = "panel" /\ ui[i].title = title

\* the targets that come after t in the request
LaterTargets(t) ==
    CASE t = "market" -> {"price_level", "regression"}
      [] t = "price_level" -> {"regression"}
      [] OTHER -> {}

(***************************************************************************)
(* C5 amended: an exception that derives from Exception, raised by the     *)
(* scaler, by predict or by the conversion of a target, is caught in that  *)
(* target's block: the target gets the failure label / code -99 / value    *)
(* -1.0 and exactly one entry in error_messages, the later blocks run and  *)
(* the results of all three targets are rendered.  An exception that does  *)
(* not derive from Exception (SystemExit, KeyboardInterrupt,               *)
(* GeneratorExit) is not caught: it ends the script run in that block,     *)
(* without an entry, before the later targets and the rendering; and a run *)
(* ends that way for no other reason.                                      *)
(***************************************************************************)
C5_ExceptionsBecomeFailures ==
    /\ Dispatched =>
         /\ \A t \in Targets :
              /\ (Attempted(t) /\ TryRaises(t)) =>
                    /\ ~RaisesNonException(t)
                    /\ Cardinality(ErrorsOf(t)) = 1
                    /\ t = "market" => market_pred_label = Label(LabelFailed)
                    /\ t = "price_level" => /\ price_level_pred_label = Label(LabelFailed)
                                            /\ price_level_pred_code = ErrorCode
                    /\ t = "regression" => unit_price_pred = ErrorPrice
              /\ ~(Attempted(t) /\ TryRaises(t)) => ErrorsOf(t) = {}
         /\ Len(error_messages) = Cardinality({t \in Targets : Attempted(t) /\ TryRaises(t)})
    /\ Rendered => \A title \in {"market_segment", "price_level", "unit_price"} :
                      \E i \in DOMAIN ui : ui[i].w = "panel" /\ ui[i].title = title
    /\ pc = "crashed" <=> \E t \in Targets : Attempted(t) /\ RaisesNonException(t)
    /\ pc = "crashed" =>
          \E t \in Targets :
              /\ Attempted(t) /\ RaisesNonException(t)
              /\ ErrorsOf(t) = {}
              /\ \A u \in LaterTargets(t) : ~sufficiency[u].checked /\ ~Attempted(u)
              /\ \A i \in DOMAIN ui : ui[i].w # "panel"
    /\ pc \in {"price_level", "regression", "render"} =>
          \A t \in Targets : Attempted(t) => ~RaisesNonException(t)

\* the market model and the scaler both raised, the price level succeeded,
\* and all of it was rendered
C5_Witness ==
    /\ Rendered
    /\ Cardinality(ErrorsOf("market")) = 1
    /\ Cardinality(ErrorsOf("regression")) = 1
    /\ resources.c.scaler.exc.type = "TypeError"
    /\ ErrorsOf("price_level") = {}
    /\ PanelShows("price_level", Label("above_avg"))
    /\ PanelShows("market_segment", Label(LabelFailed))

(***************************************************************************)
(* A whole request as a function of the loaded artifacts and the form      *)
(* values: the three blocks in sequence (lines 476-602), then the display  *)
(* (lines 604-735).  It lets a property compare two requests.              *)
(***************************************************************************)
RequestResult(c, inputs) ==
    LET m == market_dispatch(c, inputs, NoFlags, <<>>)
        p == price_level_dispatch(c, inputs, m.flags, m.errors)
        r == regression_dispatch(c, inputs, p.flags, p.errors)
    IN  [errors |-> r.errors,
         ui |-> m.ui \o p.ui
                \o RenderedResults(r.errors, m.label, p.label, p.code, r.value, r.flags)]

\* exception texts a model or the scaler may raise with
ExcTexts ==
    { <<"boom">>, <<"X has", "8", "features">>, <<"number of features", "differs">> }

TextsFor(exc) == IF exc = NoExc THEN {exc} ELSE {Exc(exc.type, txt) : txt \in ExcTexts}

\* str predictions that float() rejects, each with another text in the
\* message of its ValueError: "abc", and the text of the marker
RejectedLiterals == {RawStr(<<97, 98, 99>>), RawStr(MarkerChars)}

\* the artifacts that differ from c only in the text of the exceptions raised
TextVariants(c) ==
    { [c EXCEPT !.market_model.exc = e1, !.price_level_model.exc = e2,
                !.regression_model.exc = e3, !.scaler.exc = e4,
                !.regression_model.raw = r] :
        e1 \in (IF c.market_model.kind = "raise" THEN TextsFor(c.market_model.exc)
                ELSE {c.market_model.exc}),
        e2 \in (IF c.price_level_model.kind = "raise" THEN TextsFor(c.price_level_model.exc)
                ELSE {c.price_level_model.exc}),
        e3 \in (IF c.regression_model.kind = "raise" THEN TextsFor(c.regression_model.exc)
                ELSE {c.regression_model.exc}),
        e4 \in TextsFor(c.scaler.exc),
        r \in (IF c.regression_model.raw \in RejectedLiterals THEN RejectedLiterals
               ELSE {c.regression_model.raw}) }

\* which entries of the error list carry the scaler-mismatch marker
MarkerProfile(errors) == [i \in DOMAIN errors |-> Contains(errors[i], ScalerMismatchMarker)]

\* what scaler.transform does with the row of the request (line 570)
ScalerOutcome(c, inputs) == Transform(c.scaler, AssembleRow(REQUIRED_REGRESSION_FEATURES, inputs))

\* the tokens of the texts of the exceptions that the loaded models, the
\* scaler, for the row of the request, and the conversions of the
\* predictions raise with
ArtifactExcTokens(c, inputs) ==
    Range(c.market_model.exc.text) \cup Range(c.price_level_model.exc.text)
    \cup Range(c.regression_model.exc.text)
    \cup Range(ScalerOutcome(c, inputs).exc.text)
    \cup Range(KeyOf(c.market_model.raw).exc.text)
    \cup Range(KeyOf(c.price_level_model.raw).exc.text)
    \cup Range(FloatOf(c.regression_model.raw).exc.text)

(***************************************************************************)
(* C6 as stated: the output for inference errors is the generic line only, *)
(* so two requests that differ only in the text of the raised exceptions   *)
(* render the same content.                                                *)
(***************************************************************************)
C6_Original_SameOutputForAnyText ==
    Rendered => \A c2 \in TextVariants(resources.c) : RequestResult(c2, all_inputs).ui = ui

(***************************************************************************)
(* C6 amended: no token of an exception text is ever shown; the output for *)
(* the errors is one numbered generic line per error plus a fixed hint for *)
(* each error whose message carries the scaler-mismatch marker; every      *)
(* detailed message is printed to the log; and two requests that differ    *)
(* only in exception text render the same content when the same errors     *)
(* carry the marker.                                                       *)
(***************************************************************************)
C6_ExceptionTextOnlyLogged ==
    Rendered =>
        /\ LET raised == ArtifactExcTokens(resources.c, all_inputs)
           IN  \A i \in DOMAIN ui : Range(ui[i].tokens) \cap raised = {}
        /\ Cardinality({i \in DOMAIN ui : ui[i].w = "markdown" /\ GenericErrorText \in Range(ui[i].tokens)})
              = Len(error_messages)
        /\ \A j \in DOMAIN error_messages :
              /\ \E i \in DOMAIN ui : ui[i].tokens = <<NumStr(j), GenericErrorText>>
              /\ \E k \in DOMAIN log : log[k] = error_messages[j]
              /\ Contains(error_messages[j], ScalerMismatchMarker)
                    <=> \E i \in DOMAIN ui : /\ ui[i].w = "warning"
                                             /\ Len(ui[i].tokens) >= 2
                                             /\ ui[i].tokens[1] = "hint (error"
                                             /\ ui[i].tokens[2] = NumStr(j)
        /\ \A t \in Targets :
              (Attempted(t) /\ TryRaises(t)) =>
                  \E j \in ErrorsOf(t) :
                      \A tok \in (IF t = "regression" /\ ScalerRaises
                                  THEN Range(ScalerOutcome(resources.c, all_inputs).exc.text)
                                  ELSE IF PredictRaises(t) THEN Range(ModelOf(t).exc.text)
                                  ELSE IF t = "regression"
                                  THEN Range(FloatOf(ModelOf(t).raw).exc.text)
                                  ELSE Range(KeyOf(ModelOf(t).raw).exc.text)) :
                          \/ Contains(error_messages[j], tok)
                          \/ Contains(error_messages[j], ScalerMismatchMarker)
        /\ \A c2 \in TextVariants(resources.c) :
              LET result == RequestResult(c2, all_inputs)
              IN  MarkerProfile(result.errors) = MarkerProfile(error_messages)
                      => result.ui = ui

\* two errors are on the page: the first without the hint, the second, the
\* ValueError of float() for a str prediction that holds the marker, with it
C6_Witness ==
    /\ Rendered
    /\ Len(error_messages) = 2
    /\ ~Contains(error_messages[1], ScalerMismatchMarker)
    /\ resources.c.regression_model = Returns(RawStr(MarkerChars))
    /\ error_messages[2] = <<"unit price model prediction error:",
                             "could not convert string to float:", "'", ScalerMismatchMarker, "'">>
    /\ \E i \in DOMAIN ui : ui[i].w = "warning" /\ ui[i].tokens[1] = "hint (error"

(***************************************************************************)
(* Vocabulary of the loader properties.                                    *)
(***************************************************************************)
\* the body of load_resources ran and every joblib.load returned
AllFilesRead ==
    cache.filled /\ files_present = Range(required_files) /\ disk_read.throw_at = 0

\* the loaded scaler states an input width other than the length of the hard-coded list
ScalerWidthDiffers == disk_read.contents.scaler.has_n /\ disk_read.contents.scaler.n # 8

LoadFailed == cache.filled /\ cache.resources.is_none

(***************************************************************************)
(* C7: whenever the loaded scaler's width differs from the length of the   *)
(* hard-coded list, the load fails, whatever the schema file holds.  The   *)
(* loader compares the widths only on the two paths where the 'regression' *)
(* entry is absent or empty (line 95) or names another set of features     *)
(* (line 79); with an entry of the same names it returns the resources.    *)
(***************************************************************************)
C7_Original_WidthMismatchAlwaysFatal ==
    (AllFilesRead /\ disk_read.contents.feature_names.is_dict /\ ScalerWidthDiffers)
        => LoadFailed

(***************************************************************************)
(* C8: a failed load or a failed content validation stops the script       *)
(* before the widgets and the button exist: the sidebar, a request and a   *)
(* model call happen only after a successful load of valid content.        *)
(***************************************************************************)
ContentValid(c) ==
    /\ c.mappings.bad \cap {"orientation", "floor_level", "district", "age",
                            "market_category", "above_district_avg"} = {}
    /\ c.feature_names.market.present /\ c.feature_names.market.is_list
    /\ c.feature_names.price_level.present /\ c.feature_names.price_level.is_list
    /\ c.feature_names.regression.present => c.feature_names.regression.is_list

C8_NoRequestAfterFailedStartup ==
    /\ (widgets_created \/ invoked # <<>> \/ all_inputs # NoInputs
        \/ pc \in {"sidebar", "idle", "market", "price_level", "regression", "render"})
       => /\ cache.filled /\ ~cache.resources.is_none /\ ~resources.is_none
          /\ resources = cache.resources
          /\ ContentValid(resources.c)
    /\ pc = "stopped" => /\ ~widgets_created
                         /\ invoked = <<>>
                         /\ sufficiency = NoChecks
                         /\ resources.is_none \/ ~ContentValid(resources.c)
    /\ pc = "load_crashed" => /\ ~widgets_created
                              /\ invoked = <<>>
                              /\ sufficiency = NoChecks

\* the script stopped at the content validation after a successful load
C8_Witness ==
    /\ pc = "stopped"
    /\ ~resources.is_none
    /\ "market_category" \in resources.c.mappings.bad
    /\ ~widgets_created

\* the last execution of the body of load_resources ended with a
\* joblib.load that raised, every file being there
LoadThrew == files_present = Range(required_files) /\ disk_read.throw_at > 0

PositionOf(f) == CHOOSE i \in DOMAIN required_files : required_files[i] = f

(***************************************************************************)
(* C9 as stated: with a required file absent, load_resources fails without *)
(* calling joblib.load and its error list is the base names of the absent  *)
(* files, each once, in the order of the required-files list; with every   *)
(* file present and a joblib.load raising, it fails with the single entry  *)
(* that carries the load error.  An exception of a class outside Exception *)
(* (KeyboardInterrupt, SystemExit) is not caught at line 101: the function *)
(* returns no error list at all.                                           *)
(***************************************************************************)
C9_Original_EveryLoadErrorReturned ==
    LoadThrew =>
        /\ cache.filled
        /\ cache.resources.is_none
        /\ cache.load_error_info = << <<"load error:">> \o disk_read.exc.text >>

(***************************************************************************)
(* C9 amended: with a required file absent, load_resources fails without   *)
(* calling joblib.load and its error list is the base names of the absent  *)
(* files, each once, in the order of the required-files list; with every   *)
(* file present and a joblib.load raising an exception that derives from   *)
(* Exception, it fails with the single entry that carries the load error;  *)
(* an exception of another class leaves load_resources after the files     *)
(* before it were read: nothing is returned or stored and the script run   *)
(* ends with no page content.                                              *)
(***************************************************************************)
C9_LoadErrorLists ==
    /\ cache.filled =>
        LET absent == Range(required_files) \ files_present
            info == cache.load_error_info
        IN  /\ absent # {} =>
                /\ loads_attempted = <<>>
                /\ cache.resources.is_none
                /\ Len(info) = Cardinality(absent)
                /\ \A i \in DOMAIN info : Len(info[i]) = 1 /\ info[i][1] \in absent
                /\ \A i, j \in DOMAIN info :
                      i < j => PositionOf(info[i][1]) < PositionOf(info[j][1])
            /\ (absent = {} /\ disk_read.throw_at > 0) =>
                /\ disk_read.exc.type \notin NotExceptions
                /\ cache.resources.is_none
                /\ Len(info) = 1
                /\ info[1] = <<"load error:">> \o disk_read.exc.text
                /\ Len(loads_attempted) = disk_read.throw_at
    /\ LoadThrew =>
          IF disk_read.exc.type \in NotExceptions
          THEN /\ ~cache.filled
               /\ pc \in {"load_crashed", "start"}
               /\ resources.is_none
               /\ load_error_info = <<>>
               /\ ui = <<>>
               /\ load_log = <<>>
               /\ Len(loads_attempted) = disk_read.throw_at
          ELSE cache.filled

\* three files are absent, not next to each other in the list
C9_Witness ==
    /\ cache.filled
    /\ files_present = {"price_level_rf_model.joblib", "unit_price_rf_model.joblib",
                        "feature_names.joblib"}
    /\ Len(cache.load_error_info) = 3
    /\ pc = "stopped"

(***************************************************************************)
(* Vocabulary of the decoding properties.                                  *)
(***************************************************************************)
\* the classifier of target t was called with sufficient input and its
\* predict returned
Decoded(t) == Rendered /\ Attempted(t) /\ ~PredictRaises(t)

Reorderings(n) ==
    {[k \in 1..n |-> IF k = i THEN j ELSE IF k = j THEN i ELSE k] : i, j \in 1..n}
    \cup {[k \in 1..n |-> ((k - 1 + r) % n) + 1] : r \in 0..(n - 1)}
    \cup {[k \in 1..n |-> n + 1 - k]}

\* the sequence with position i holding what p[i] held
Reordered(seq, p) == [i \in 1..Len(seq) |-> seq[p[i]]]

\* the rows handed to the scaler or a model for target t in this run
RowsOf(t) == {invoked[i].row : i \in {j \in DOMAIN invoked : invoked[j].target = t}}

(***************************************************************************)
(* C11: the row handed to a model (and, for regression, to the scaler) has *)
(* one column per name of the target's required list, in the order of the  *)
(* list, column i holding the request's value of the i-th name; and        *)
(* assembling the row for a reordered regression list gives the row        *)
(* reordered the same way.                                                 *)
(***************************************************************************)
C11_RowFollowsRequiredOrder ==
    /\ \A c \in DOMAIN invoked :
          LET R == RequiredList(invoked[c].target)
              row == invoked[c].row
          IN  /\ Len(row) = Len(R)
              /\ \A i \in DOMAIN R : row[i] = all_inputs[R[i]]
    /\ pc = "render" =>
          \A row \in RowsOf("regression") :
          \A p \in Reorderings(Len(REQUIRED_REGRESSION_FEATURES)) :
              AssembleRow(Reordered(REQUIRED_REGRESSION_FEATURES, p), all_inputs)
                  = Reordered(row, p)

\* the scaler and the regressor received the eight values in the order of
\* the hard-coded list (floor count before build year), the market model
\* its five
C11_Witness ==
    /\ Rendered
    /\ \E c \in DOMAIN invoked :
          /\ invoked[c].target = "regression" /\ invoked[c].op = "predict"
          /\ invoked[c].row = <<Some(5), Some(4), Some(95), Some(18), Some(2015),
                                Some(3), Some(2), Some(1)>>
    /\ \E c \in DOMAIN invoked :
          /\ invoked[c].target = "market"
          /\ invoked[c].row = <<Some(6), Some(0), Some(5), Some(4), Some(95)>>

(***************************************************************************)
(* Vocabulary of the repetition properties.                                *)
(***************************************************************************)
\* the values of the result variables, the flags and the error list now
CurrentOutcome ==
    Outcome(market_pred_label, price_level_pred_label, price_level_pred_code,
            unit_price_pred, insufficient_data_flags, error_messages)

\* the outcome of one request on artifacts c, started from the initial
\* values of lines 436-442
RequestOutcome(c, inputs) ==
    LET m == market_dispatch(c, inputs, NoFlags, <<>>)
        p == price_level_dispatch(c, inputs, m.flags, m.errors)
        r == regression_dispatch(c, inputs, p.flags, p.errors)
    IN  Outcome(m.label, p.label, p.code, r.value, r.flags, r.errors)

FullyPopulated == \A f \in DOMAIN all_inputs : ~all_inputs[f].isNone

(***************************************************************************)
(* C12: a request that repeats the fully populated vector of the request   *)
(* of the run before ends with the same result variables, flags and error  *)
(* list; and the outcome of every request, whatever runs and requests came *)
(* before it, is the outcome of one fresh request on the artifacts as they *)
(* were loaded.                                                            *)
(***************************************************************************)
C12_RepeatedRequestSameOutcome ==
    Rendered =>
        /\ previous_request.made => CurrentOutcome = previous_request.outcome
        /\ CurrentOutcome = RequestOutcome(disk_read.contents, all_inputs)

\* the request repeats the vector of the run before and all three targets
\* have a result again
C12_Witness ==
    /\ Rendered
    /\ FullyPopulated
    /\ previous_request.made
    /\ market_pred_label = Label("mid_range")
    /\ price_level_pred_code = 1
    /\ unit_price_pred = Fin(FALSE, <<5, 2, 3, 4, 5>>, 1)
    /\ error_messages = <<>>

\* the body of load_resources has been executed in this process: its
\* result is stored, or joblib.load was called in an execution that an
\* exception ended
BodyHasRun == cache.filled \/ loads_attempted # <<>>

(***************************************************************************)
(* C13 as stated: in one process the body of load_resources runs at most   *)
(* once (a script run that finds nothing stored and executes the body is   *)
(* the first to do so) and every run after it works on the stored result.  *)
(* A run in which joblib.load raises KeyboardInterrupt or SystemExit       *)
(* stores nothing, and the next run executes the body again.               *)
(***************************************************************************)
C13_Original_BodyRunsAtMostOnce ==
    [][ /\ (pc = "start" /\ pc' # "start" /\ ~cache.filled) => ~BodyHasRun
        /\ cache.filled =>
              /\ cache' = cache
              /\ disk_read' = disk_read
              /\ loads_attempted' = loads_attempted
        /\ pc' \notin {"start"} =>
              /\ cache'.filled
              /\ resources' = cache'.resources
              /\ load_error_info' = cache'.load_error_info ]_vars

(***************************************************************************)
(* C13 amended: in one process the body of load_resources returns at most  *)
(* once: once its result is stored, the body never runs again, the stored  *)
(* result never changes, and every run works on exactly that result; the   *)
(* body runs a further time only in a run that follows an execution which  *)
(* an exception outside Exception ended with nothing stored; and no step   *)
(* of a request changes the loaded models, scaler, feature lists or        *)
(* mappings.                                                               *)
(***************************************************************************)
C13_LoadedOnceAndReused ==
    [][ /\ cache.filled =>
              /\ cache' = cache
              /\ disk_read' = disk_read
              /\ loads_attempted' = loads_attempted
              /\ load_log' = load_log
        /\ (pc = "start" /\ pc' # "start" /\ ~cache.filled) =>
              /\ BodyHasRun =>
                    disk_read.throw_at > 0 /\ disk_read.exc.type \in NotExceptions
              /\ cache'.filled <=> pc' = "loaded"
        /\ pc' \notin {"start", "load_crashed"} =>
              /\ cache'.filled
              /\ resources' = cache'.resources
              /\ load_error_info' = cache'.load_error_info
        /\ pc' = "load_crashed" =>
              /\ ~cache'.filled
              /\ disk_read'.throw_at > 0 /\ disk_read'.exc.type \in NotExceptions
        /\ pc \in {"sidebar", "market", "price_level", "regression", "render"} =>
              resources' = resources ]_vars

\* a later run of the process, after a request, works on the stored result
\* of the execution of the body that returned
C13_Witness ==
    /\ pc = "sidebar"
    /\ previous_request.made
    /\ cache.filled
    /\ ~resources.is_none
    /\ resources = cache.resources
    /\ resources.c = disk_read.contents

(***************************************************************************)
(* Vocabulary of the missing-feature list.                                 *)
(***************************************************************************)
\* the positions of required list R whose name is not a key of the
\* request's vector or maps to None, in increasing order
MissingPositions(R) ==
    SelectSeq([i \in 1..Len(R) |-> i],
              LAMBDA i : R[i] \notin DOMAIN all_inputs \/ all_inputs[R[i]].isNone)

(***************************************************************************)
(* C14: the sufficiency check of a target finds, with its verdict, the     *)
(* list of the form labels of the missing features: one entry for each     *)
(* required feature that is not defined or is None, none for a present     *)
(* one, in the order of the required list; the list is printed when it is  *)
(* not empty.  With every field set except area, the unit price is         *)
(* insufficient data and the list is the one entry of the area feature.    *)
(***************************************************************************)
C14_MissingListExact ==
    /\ \A t \in Targets :
          sufficiency[t].checked =>
              LET R == RequiredList(t)
                  pos == MissingPositions(R)
                  missing == sufficiency[t].missing
              IN  /\ Len(missing) = Len(pos)
                  /\ sufficiency[t].sufficient <=> missing = <<>>
                  /\ \A k \in DOMAIN pos :
                        /\ missing[k][1] = feature_to_label(R[pos[k]])
                        /\ Len(missing[k]) = IF R[pos[k]] \in DOMAIN all_inputs THEN 1 ELSE 2
                  /\ missing # <<>> =>
                        \E l \in DOMAIN log :
                            /\ Len(log[l]) >= 3
                            /\ log[l][1] = "insufficient data for" /\ log[l][2] = t
                            /\ SubSeq(log[l], 4, Len(log[l])) = JoinEntries(missing)
    /\ (Dispatched /\ all_inputs["area"].isNone
        /\ \A f \in DOMAIN all_inputs \ {"area"} : ~all_inputs[f].isNone) =>
          /\ sufficiency["regression"].missing = << <<"area (m2):">> >>
          /\ ~sufficiency["regression"].sufficient
          /\ insufficient_data_flags["regression"]
          /\ unit_price_pred = ErrorPrice

\* the request has every field set except area, and the results are shown:
\* the unit-price panel says insufficient data
C14_Witness ==
    /\ Rendered
    /\ all_inputs["area"].isNone
    /\ \A f \in DOMAIN all_inputs \ {"area"} : ~all_inputs[f].isNone
    /\ sufficiency["regression"].missing = << <<"area (m2):">> >>
    /\ PanelShows("unit_price", Label(LabelInsufficient))

(***************************************************************************)
(* Vocabulary of the schema properties.                                    *)
(***************************************************************************)
\* the artifacts that differ from c only in the 'regression' entry of the
\* schema file, and with which startup succeeds as well
RegressionEntryVariants(c) ==
    {c2 \in {[c EXCEPT !.feature_names.regression = RegressionLists[i]] :
                i \in DOMAIN RegressionLists} :
        CheckRegressionSchema(c2).errors = <<>> /\ valid_resources(c2)}

\* the 'regression' entry that was loaded names another set of features
\* than the hard-coded list
SchemaNamesDiffer ==
    /\ disk_read.contents.feature_names.regression.present
    /\ disk_read.contents.feature_names.regression.items # <<>>
    /\ Range(disk_read.contents.feature_names.regression.items)
          # Range(REQUIRED_REGRESSION_FEATURES)

(***************************************************************************)
(* C15: after a successful load every request checks the unit-price target *)
(* against the hard-coded list and assembles the regression row from it,   *)
(* in its order; the unit-price block would end, and the page render, the  *)
(* same with any other 'regression' entry in the schema file; an entry     *)
(* naming other features leaves a warning in the log of the load and       *)
(* nothing on the page.                                                    *)
(***************************************************************************)
C15_RegressionListIsHardCoded ==
    /\ sufficiency["regression"].checked =>
          /\ sufficiency["regression"].sufficient
                <=> \A i \in DOMAIN REQUIRED_REGRESSION_FEATURES :
                        ~all_inputs[REQUIRED_REGRESSION_FEATURES[i]].isNone
          /\ \A row \in RowsOf("regression") :
                row = [i \in 1..8 |-> all_inputs[REQUIRED_REGRESSION_FEATURES[i]]]
    /\ Rendered =>
          LET m == market_dispatch(resources.c, all_inputs, NoFlags, <<>>)
              p == price_level_dispatch(resources.c, all_inputs, m.flags, m.errors)
              r == regression_dispatch(resources.c, all_inputs, p.flags, p.errors)
          IN  \* the block ends the same with every other entry, and what
              \* it ends with is the outcome, the calls and the page of
              \* the request
              /\ \A c2 \in RegressionEntryVariants(resources.c) :
                    regression_dispatch(c2, all_inputs, p.flags, p.errors) = r
              /\ Outcome(m.label, p.label, p.code, r.value, r.flags, r.errors)
                    = CurrentOutcome
              /\ m.calls \o p.calls \o r.calls = invoked
              /\ m.ui \o p.ui
                    \o RenderedResults(r.errors, m.label, p.label, p.code, r.value, r.flags)
                    = ui
    /\ (AllFilesRead /\ ~LoadFailed /\ disk_read.contents.feature_names.is_dict
        /\ SchemaNamesDiffer) =>
          /\ \E l \in DOMAIN load_log :
                load_log[l] = <<"warning:", "regression", "features differ from the code's list">>
          /\ pc \notin {"start", "loaded", "stopped"} =>
                \A i \in DOMAIN ui : "regression" \notin Range(ui[i].tokens)

\* the schema file names seven regression features, the load succeeded with
\* a warning, and the request gave the regressor the eight hard-coded ones
C15_Witness ==
    /\ Rendered
    /\ SchemaNamesDiffer
    /\ Len(disk_read.contents.feature_names.regression.items) = 7
    /\ \E c \in DOMAIN invoked :
          /\ invoked[c].target = "regression" /\ invoked[c].op = "predict"
          /\ Len(invoked[c].row) = 8
    /\ unit_price_pred = Fin(FALSE, <<5, 2, 3, 4, 5>>, 1)

(***************************************************************************)
(* Vocabulary of the result page.                                          *)
(***************************************************************************)
\* the texts a panel shows in place of a prediction
NoPredictionTexts ==
    {"feature_config_missing", LabelInsufficient, LabelFailed, "prediction_failed_or_unknown",
     "unknown_state", "prediction_failed_or_insufficient"}

\* the closing banner is the success banner
SuccessBannerShown ==
    \E i \in DOMAIN ui : ui[i].w = "success" /\ ui[i].tokens = <<"all predictions complete">>

(***************************************************************************)
(* C16: the success banner "all predictions complete" is shown only when   *)
(* all three panels show a prediction: with a panel showing insufficient   *)
(* data, configuration missing, prediction failed/unknown or unknown state *)
(* (a price-level code of -99 for a prediction that is not numeric, or a   *)
(* code other than 0 and 1, included) the banner is not shown.             *)
(***************************************************************************)
C16_SuccessBannerOnlyWhenAllSucceed ==
    (Rendered /\ SuccessBannerShown) =>
        \A i \in DOMAIN ui : ui[i].w = "panel" => ui[i].body.text \notin NoPredictionTexts

(***************************************************************************)
(* Vocabulary of the unit price.                                           *)
(***************************************************************************)
\* the value is the -1.0 sentinel
IsSentinel(v) == v.k = "fin" /\ v.neg /\ v.digits = <<1>> /\ v.scale = 0

\* the value is a number that is not below zero
NotNegative(v) == v.k # "nan" /\ ~v.neg

\* the regression block ran to the end of its try: sufficient input, and
\* neither the scaler, nor predict, nor float() raised
RegressionSucceeds ==
    /\ AllPresent(REQUIRED_REGRESSION_FEATURES)
    /\ ~ScalerRaises
    /\ ~PredictRaises("regression")
    /\ FloatOf(ModelOf("regression").raw).ok

(***************************************************************************)
(* C17: after the three blocks the unit price is the -1.0 sentinel or is   *)
(* not negative.  A regression whose scaler, predict and float() did not   *)
(* raise stores max(0, float(prediction)): the float itself when it is     *)
(* greater than zero, else 0 (also for a negative one, for -1.0 and for    *)
(* nan); the stored value is never the sentinel, there is no error entry,  *)
(* and the panel shows it as a price.  Every other regression, failed or   *)
(* with insufficient data, leaves the sentinel and the panel shows the     *)
(* failure or insufficient-data text.                                      *)
(***************************************************************************)
C17_UnitPriceClamped ==
    Dispatched =>
        /\ IsSentinel(unit_price_pred) \/ NotNegative(unit_price_pred)
        /\ RegressionSucceeds =>
              LET f == FloatOf(ModelOf("regression").raw).value
              IN  /\ ~IsSentinel(unit_price_pred)
                  /\ NotNegative(unit_price_pred)
                  /\ (f.k = "inf" /\ ~f.neg) => unit_price_pred = f
                  /\ (f.k = "fin" /\ ~f.neg /\ f.digits # <<>>) => unit_price_pred = f
                  /\ (f.k = "nan" \/ f.neg \/ (f.k = "fin" /\ f.digits = <<>>))
                        => unit_price_pred = Fin(FALSE, <<>>, 0)
                  /\ ErrorsOf("regression") = {}
                  /\ ~insufficient_data_flags["regression"]
                  /\ Rendered =>
                        \E i \in DOMAIN ui :
                            /\ ui[i].w = "panel" /\ ui[i].title = "unit_price"
                            /\ ui[i].body.text = "yuan/m2"
                            /\ ui[i].body.key = StrKey(Formatted(unit_price_pred))
                            /\ ui[i].body.key.s[1] # 45
        /\ ~RegressionSucceeds =>
              /\ IsSentinel(unit_price_pred)
              /\ insufficient_data_flags["regression"] \/ Cardinality(ErrorsOf("regression")) = 1
              /\ Rendered =>
                    \E i \in DOMAIN ui :
                        /\ ui[i].w = "panel" /\ ui[i].title = "unit_price"
                        /\ ui[i].body.text \in {LabelInsufficient, "prediction_failed_or_insufficient"}
        /\ (ModelOf("regression") = Returns(RawStr(<<11, 50, 46, 53>>)) /\ RegressionSucceeds)
              => unit_price_pred = Fin(FALSE, <<2, 5>>, 1)

\* the regressor predicted bytearray(b"-1.0"), which float() converts to the
\* value of the sentinel: the stored value is 0 and the panel shows the
\* price 0
C17_Witness ==
    /\ Rendered
    /\ resources.c.regression_model = Returns(RawByteArray(<<45, 49, 46, 48>>))
    /\ FloatOf(resources.c.regression_model.raw).value = Fin(TRUE, <<1>>, 0)
    /\ ErrorsOf("regression") = {}
    /\ sufficiency["regression"].sufficient
    /\ unit_price_pred = Fin(FALSE, <<>>, 0)
    /\ PanelShows("unit_price", [text |-> "yuan/m2", key |-> StrKey(<<48>>)])

====
